---- MODULE Spec2Model ----
(***************************************************************************)
(* The workflow execution engine of mcp-workflow: McpWorkflow (the step-   *)
(* sequencing orchestrator), WorkflowSessionManager and                    *)
(* InMemoryWorkflowStore.                                                  *)
(*                                                                         *)
(* Every public operation is an async function.  A call is a record in     *)
(* `calls` whose `pc` names the await at which it is suspended; one action *)
(* is the code run between two awaits.  Spec runs the calls one at a time  *)
(* (a call begins only when no other is in flight); SpecAsync lets calls   *)
(* interleave at their awaits, as the event loop does.                     *)
(*                                                                         *)
(* McpActivityTool (execute, executeWithTimeout, executeWithRetry) is the  *)
(* state machine of `tool`: one call of a standalone activity tool, stepped *)
(* from await to await under SpecActivity.                                 *)
(*                                                                         *)
(* SpecSuggestions applies buildToolCallSuggestions to every input of a    *)
(* bounded set (`suggest`).  SpecStore is a client calling the operations  *)
(* of an InMemoryWorkflowStore and mutating the session objects it passed  *)
(* in or got back (`store`); there sessions, Maps and arrays are objects   *)
(* with an identity, so that a copy and an alias differ.                   *)
(*                                                                         *)
(* Values (inputs, activity data) are naturals; 0 is the falsy `undefined`.*)
(* Dates are readings of a logical clock that ticks at each session        *)
(* creation and completion; the two dates of a history entry are left out. *)
(***************************************************************************)
EXTENDS Naturals, Sequences, FiniteSets, TLC

VARIABLES
    config,         \* McpWorkflow.config.steps, fixed at construction
    manager,        \* WorkflowSessionManager.maxSessions and sessionTTLMs, fixed at construction
    sessions,       \* InMemoryWorkflowStore.sessions: sessionId -> session
    lastSessionId,  \* McpWorkflow.lastSessionId (0 is null)
    nextId,         \* ids handed out so far by randomUUID
    clock,          \* logical time read by `new Date()`
    calls,          \* the start/continue/cancel calls made so far
    callbacks,      \* sessionId -> workflow callbacks invoked for it, in order
    tool,           \* a call of McpActivityTool.execute / executeWithRetry
    suggest,        \* a call of McpWorkflow.buildToolCallSuggestions
    store           \* an InMemoryWorkflowStore used directly by a client

vars == <<config, manager, sessions, lastSessionId, nextId, clock, calls, callbacks, tool,
          suggest, store>>

\* ---------------------------------------------------------------- bounds
MaxSteps == 2      \* steps of the workflow
MaxCalls == 3      \* start/continue/cancel calls made in one behaviour
MaxAsyncCalls == 2 \* calls made in one behaviour of SpecAsync
MaxAttempts == 3   \* largest retry.maxAttempts of an activity
MaxOwn == 2        \* suggestions an activity result carries
MaxBranches == 2   \* branches a step declares
MaxStoreOps == 4   \* operations and mutations of the store's client
MaxStoreIds == 2   \* session ids the store's client uses
MaxLimit == 2      \* the largest maxSessions a manager is constructed with
MaxCreated == 3    \* sessions created in all while another workflow creates some
MaxRacing == 2     \* continue() calls in flight together on one session

\* ------------------------------------------------------------- constants
DefaultMaxSessions == 1000
DefaultSessionTTLMs == 3600000

Undefined == "undefined"
WorkflowName == "wf"
WorkflowInputKey == "__workflow_input__"

PENDING == "pending"
RUNNING == "running"
COMPLETED == "completed"
FAILED == "failed"
CANCELLED == "cancelled"
WorkflowStatus == {PENDING, RUNNING, COMPLETED, FAILED, CANCELLED}
TerminalStatuses == {COMPLETED, FAILED, CANCELLED}

\* --------------------------------------------------- workflow definition
\* A step: its activity (one activity per step, named after the step), the
\* optional flag and the condition (none, "the start input is in memory", or
\* a condition function that raises).
ActivityName(stepIndex) == "act" \o ToString(stepIndex)
Conditions == {"none", "hasInput", "raises"}
WorkflowStep(stepIndex) ==
    [activity : {ActivityName(stepIndex)}, optional : BOOLEAN, condition : Conditions]

\* The step lists a workflow can be constructed with (validateConfig rejects
\* the empty list).
validateConfig(steps) == Len(steps) > 0
Workflows ==
    {s \in UNION {[1..n -> UNION {WorkflowStep(i) : i \in 0..(n - 1)}] : n \in 0..MaxSteps} :
        /\ validateConfig(s)
        /\ \A i \in DOMAIN s : s[i] \in WorkflowStep(i - 1)}

\* step.condition as a predicate over the session memory
EvalCondition(cond, memory) ==
    IF cond = "hasInput" THEN WorkflowInputKey \in DOMAIN memory ELSE TRUE

ConditionRaises(cond) == cond = "raises"
ConditionError == "condition failed"

\* The activity's `run` used in the model: on success its data is input + 1.
RunData(input) == input + 1

\* The retry policy of a step's activity (ActivityConfig.retry): every
\* activity of the workflow is registered with one.
ActivityRetry(stepIndex) == [maxAttempts |-> MaxAttempts]

\* What activity.execute(context) can produce for the orchestrator: a result
\* (success with data, failure with or without an error message), or a raise.
ActivityOutcomes(input) ==
    { [raised |-> FALSE, success |-> TRUE,  data |-> RunData(input), error |-> Undefined],
      [raised |-> FALSE, success |-> FALSE, data |-> 0, error |-> "boom"],
      [raised |-> FALSE, success |-> FALSE, data |-> 0, error |-> Undefined],
      [raised |-> TRUE,  success |-> FALSE, data |-> 0, error |-> "hook failed"] }

NoResult == [raised |-> FALSE, success |-> TRUE, data |-> 0, error |-> Undefined]

\* ------------------------------------------- buildToolCallSuggestions
\* A ToolCallSuggestion: the tool, its priority (0 when it has none: the sort
\* reads `priority || 0`), the condition text and the parameters.
ContinueTool == WorkflowName \o "_continue"
BranchPriority == 100
ContinuePriority == 50
NoParameters == [sessionId |-> 0, data |-> 0]
Suggestion(toolName, priority, condition, parameters) ==
    [toolName |-> toolName, priority |-> priority, condition |-> condition,
     parameters |-> parameters]

\* A BranchConfig {when, call}, without `with` and `description`.  The `when`
\* functions of the model: r => r.valid, r => !r.valid, () => true and
\* (r, input, memory) => memory.has('__workflow_input__').  Data 0 is a falsy
\* value (its `.valid` is undefined), odd data is {valid: false}, even data
\* {valid: true}.
Whens == {"valid", "invalid", "always", "hasInput"}
Valid(data) == data # 0 /\ data % 2 = 0
When(when, data, stepInput, memory) ==
    CASE when = "valid" -> Valid(data)
      [] when = "invalid" -> ~Valid(data)
      [] when = "hasInput" -> WorkflowInputKey \in DOMAIN memory
      [] OTHER -> TRUE

BranchSuggestion(branchConfig, data, sessionId) ==
    Suggestion(branchConfig.call, BranchPriority, "Branch: " \o branchConfig.call,
               [sessionId |-> sessionId, data |-> data])

\* The `for` loop over step.branches: one suggestion per branch whose `when`
\* holds, in declaration order.
RECURSIVE MatchedBranches(_, _, _, _, _)
MatchedBranches(branches, data, sessionId, stepInput, memory) ==
    IF branches = <<>> THEN <<>>
    ELSE (IF When(Head(branches).when, data, stepInput, memory)
          THEN <<BranchSuggestion(Head(branches), data, sessionId)>> ELSE <<>>)
         \o MatchedBranches(Tail(branches), data, sessionId, stepInput, memory)

\* Array.prototype.sort with (a, b) => (b.priority || 0) - (a.priority || 0):
\* descending, and stable.
RECURSIVE InsertByPriority(_, _)
InsertByPriority(sorted, s) ==
    IF sorted = <<>> THEN <<s>>
    ELSE IF Head(sorted).priority >= s.priority
         THEN <<Head(sorted)>> \o InsertByPriority(Tail(sorted), s)
         ELSE <<s>> \o sorted

RECURSIVE SortByPriority(_)
SortByPriority(suggestions) ==
    IF suggestions = <<>> THEN <<>>
    ELSE InsertByPriority(SortByPriority(SubSeq(suggestions, 1, Len(suggestions) - 1)),
                          suggestions[Len(suggestions)])

\* buildToolCallSuggestions: the result's own toolCallSuggestions; the matched
\* branches, evaluated only `if (step.branches && result.data)`; the default
\* continue suggestion unless it is the last step or a suggestion already
\* targets the continue tool; the whole sorted.
buildToolCallSuggestions(isLastStep, branches, data, own, sessionId, stepInput, memory) ==
    LET matched == IF branches # <<>> /\ data # 0
                   THEN MatchedBranches(branches, data, sessionId, stepInput, memory)
                   ELSE <<>>
        listed == own \o matched
        continueExists == \E i \in DOMAIN listed : listed[i].toolName = ContinueTool
        default == IF ~isLastStep /\ ~continueExists
                   THEN <<Suggestion(ContinueTool, ContinuePriority,
                                     "Continue to next step in workflow", NoParameters)>>
                   ELSE <<>>
    IN  SortByPriority(listed \o default)

\* The branches of the workflow's steps (every step declares the same two)
\* and the suggestions its activities return themselves (none).
StepBranches(stepIndex) ==
    <<[when |-> "valid", call |-> "ok_tool"], [when |-> "invalid", call |-> "err_tool"]>>
ActivitySuggestions(stepIndex) == <<>>

NoSuggest ==
    [pc |-> "idle", isLastStep |-> FALSE, branches |-> <<>>, data |-> 0, own |-> <<>>,
     stepInput |-> 0, memory |-> [k \in {} |-> 0], out |-> <<>>]

\* -------------------------------------------------------- McpActivityTool
\* An activity's configuration: whether it has an input and an output schema,
\* its timeout in ms (0: none) and its retry policy's maxAttempts (0: no policy).
Timeouts == {0, 10}
ActivityConfig ==
    [inputSchema : BOOLEAN, outputSchema : BOOLEAN, timeout : Timeouts,
     maxAttempts : 0..MaxAttempts]

\* Values given as context.input or returned as result.data: 0 is falsy,
\* 1 satisfies the schema, 2 is truthy and does not satisfy it.
ToolValues == {0, 1, 2}
Satisfies(value) == value = 1

\* What callbacks.run can do: return a result (success true, false or left
\* out; data; error) or raise.
RunOutcomes ==
    { [kind |-> "return", success |-> "true",      data |-> 1, error |-> Undefined],
      [kind |-> "return", success |-> "true",      data |-> 2, error |-> Undefined],
      [kind |-> "return", success |-> "undefined", data |-> 0, error |-> Undefined],
      [kind |-> "return", success |-> "false",     data |-> 0, error |-> "boom"],
      [kind |-> "return", success |-> "false",     data |-> 0, error |-> Undefined],
      [kind |-> "raise",  success |-> "false",     data |-> 0, error |-> "run failed"] }
NoRun == [kind |-> "none", success |-> "undefined", data |-> 0, error |-> Undefined]

Failure(error) == [raised |-> FALSE, success |-> FALSE, data |-> 0, error |-> error]
Raised(error) == [raised |-> TRUE, success |-> FALSE, data |-> 0, error |-> error]

InputError == "invalid input"
OutputError == "invalid output"
HookError(hook) == hook \o " hook failed"
TimeoutError(timeoutMs) == "Activity timed out after " \o ToString(timeoutMs) \o "ms"
RetryError(maxAttempts, message) ==
    "Activity failed after " \o ToString(maxAttempts) \o " attempts: " \o message

\* validateInput / validateOutput: TRUE when parse does not throw; a falsy
\* value is not parsed.
validateInput(cfg, input) == (cfg.inputSchema /\ input # 0) => Satisfies(input)
validateOutput(cfg, output) == (cfg.outputSchema /\ output # 0) => Satisfies(output)

\* The tool before a call.  `result` is execute's local; `pending`, an error
\* on its way out of the catch block; `hooks`, the lifecycle hooks invoked by
\* the current execute; `outcome`, how the last execute ended; `runs` and
\* `executes` count the invocations of callbacks.run and of execute;
\* `abandoned`, the runs left in flight by a timeout, `late` those that
\* settled afterwards.
IdleTool ==
    [cfg |-> [inputSchema |-> FALSE, outputSchema |-> FALSE, timeout |-> 0, maxAttempts |-> 0],
     input |-> 0, op |-> "none", pc |-> "idle",
     result |-> NoResult, pending |-> Undefined, hooks |-> <<>>, outcome |-> NoResult,
     ran |-> NoRun, timedOut |-> FALSE,
     runs |-> 0, runSuccesses |-> 0, executes |-> 0, abandoned |-> 0, late |-> 0,
     attempt |-> 0, lastError |-> Undefined, ret |-> NoResult]

\* ------------------------------------------------ InMemoryWorkflowStore
NoSession == [sessionId |-> 0]
EmptyMemory == [k \in {} |-> 0]

\* The store with its objects: `at` and `order` are this.sessions (sessionId
\* -> the stored session object, and the keys in insertion order); `objs`,
\* `maps` and `arrays` are the heap (a session object holds references to
\* its memory Map and its history and branchHistory arrays); `held` are the
\* session objects the client has, each with where it has it from; `last`
\* is the operation just made.
NoOp == [op |-> "none", id |-> 0, existed |-> FALSE, raised |-> FALSE, count |-> 0,
         h |-> 0, from |-> "", partial |-> <<>>, options |-> <<>>]
EmptyStore ==
    [at |-> <<>>, order |-> <<>>, objs |-> <<>>, maps |-> <<>>, arrays |-> <<>>,
     nextRef |-> 1, held |-> <<>>, now |-> 1, ops |-> 0, last |-> NoOp]


StoreGetSession(sid) ==
    IF sid \in DOMAIN sessions THEN sessions[sid] ELSE NoSession

\* The merge with the spread written the other way round: the stored fields win.
StoreUpdateSession_ExistingWins(ss, sid, updates) == ss

\* The merge without the two lines that restore sessionId and workflowName.
StoreUpdateSession_NoGuard(ss, sid, updates) ==
    [ss EXCEPT ![sid] =
        [f \in DOMAIN ss[sid] |-> IF f \in DOMAIN updates THEN updates[f] ELSE ss[sid][f]]]

\* {...existing, ...updates}: every key present in `updates` overwrites, also
\* when its value is undefined; sessionId and workflowName are kept.
StoreUpdateSession(ss, sid, updates) ==
    [ss EXCEPT ![sid] =
        [f \in DOMAIN ss[sid] |->
            IF f \in DOMAIN updates /\ f \notin {"sessionId", "workflowName"}
            THEN updates[f] ELSE ss[sid][f]]]

StoreSetMemory(ss, sid, key, value) ==
    [ss EXCEPT ![sid].memory =
        [k \in DOMAIN @ \cup {key} |-> IF k = key THEN value ELSE @[k]]]

\* recordStepExecution that keeps one entry per step.
StoreRecordStepExecution_OncePerStep(ss, sid, stepIndex, activityName, success, error) ==
    IF \E i \in DOMAIN ss[sid].history : ss[sid].history[i].stepIndex = stepIndex
    THEN ss
    ELSE [ss EXCEPT ![sid].history = Append(@,
            [stepIndex |-> stepIndex, activityName |-> activityName,
             success |-> success, error |-> error])]

StoreRecordStepExecution(ss, sid, stepIndex, activityName, success, error) ==
    [ss EXCEPT ![sid].history = Append(@,
        [stepIndex |-> stepIndex, activityName |-> activityName,
         success |-> success, error |-> error])]

StoreGetStats(ss) ==
    [total |-> Cardinality(DOMAIN ss)]

\* cleanup(options): drop the sessions older than maxAge or in one of
\* `statuses`; if more than maxSessions remain, drop the oldest by startedAt,
\* those of one date in the order of the Map (`pos`: sessionId -> position).
\* `options` has the keys the caller gave; maxAge and maxSessions are read as
\* conditions (`if (options?.maxAge)`), so that a 0 counts as not given.
RECURSIVE EvictOldest(_, _, _)
EvictOldest(ss, pos, n) ==
    IF n = 0 \/ DOMAIN ss = {} THEN ss
    ELSE LET oldest == CHOOSE i \in DOMAIN ss :
                         \A j \in DOMAIN ss :
                            \/ ss[i].startedAt < ss[j].startedAt
                            \/ ss[i].startedAt = ss[j].startedAt /\ pos[i] <= pos[j]
         IN  EvictOldest([i \in DOMAIN ss \ {oldest} |-> ss[i]], pos, n - 1)

StoreCleanup(ss, pos, now, options) ==
    LET tooOld(i) == /\ "maxAge" \in DOMAIN options /\ options.maxAge # 0
                     /\ now - ss[i].startedAt > options.maxAge
        inStatuses(i) == /\ "statuses" \in DOMAIN options
                         /\ ss[i].status \in options.statuses
        kept == {i \in DOMAIN ss : ~tooOld(i) /\ ~inStatuses(i)}
        rest == [i \in kept |-> ss[i]]
    IN  IF /\ "maxSessions" \in DOMAIN options /\ options.maxSessions # 0
           /\ Cardinality(kept) > options.maxSessions
        THEN EvictOldest(rest, pos, Cardinality(kept) - options.maxSessions)
        ELSE rest

\* ----------------------------------------------- WorkflowSessionManager
NewSession(sid, totalSteps, now) ==
    [sessionId |-> sid, workflowName |-> WorkflowName, status |-> PENDING,
     currentStep |-> 0, totalSteps |-> totalSteps, memory |-> EmptyMemory,
     startedAt |-> now, completedAt |-> 0, error |-> Undefined,
     history |-> <<>>, branchHistory |-> <<>>]

\* The options a WorkflowSessionManager is constructed with (0: not given),
\* and the limits it keeps: `options?.maxSessions || 1000`,
\* `options?.sessionTTLMs || 3600000`.
NoOptions == [maxSessions |-> 0, sessionTTLMs |-> 0]

NewManager(options) ==
    [maxSessions |-> IF options.maxSessions # 0 THEN options.maxSessions
                     ELSE DefaultMaxSessions,
     sessionTTLMs |-> IF options.sessionTTLMs # 0 THEN options.sessionTTLMs
                      ELSE DefaultSessionTTLMs]

ManagerCleanup(ss, now) ==
    StoreCleanup(ss, [i \in DOMAIN ss |-> i], now,
                 [maxAge |-> manager.sessionTTLMs, maxSessions |-> manager.maxSessions,
                  statuses |-> TerminalStatuses])

\* completeSession that passes the error on only when one is given.
completeSession_ErrorIfGiven(ss, sid, status, now, error) ==
    IF error = Undefined
    THEN [ss EXCEPT ![sid].status = status, ![sid].completedAt = now]
    ELSE [ss EXCEPT ![sid].status = status, ![sid].completedAt = now,
                    ![sid].error = error]

\* completeSession: updateSession with status, completedAt = now and error
\* (the error key is always present, undefined when no error is given).
completeSession(ss, sid, status, now, error) ==
    StoreUpdateSession(ss, sid,
        [status |-> status, completedAt |-> now, error |-> error])

\* ------------------------------------------------------------ the calls
\* How a call ended: it raised, or it returned a response (a
\* WorkflowToolResponse: isError, the text, the session as loaded for it).
NoRet == [kind |-> "none", isError |-> FALSE, message |-> "", session |-> NoSession]
Raise(msg) ==
    [kind |-> "raise", isError |-> TRUE, message |-> msg, session |-> NoSession,
     nextInstructions |-> <<>>]
Response(isError, msg, session) ==
    [kind |-> "response", isError |-> isError, message |-> msg, session |-> session,
     nextInstructions |-> <<>>]

\* A call: the operation and its argument; `owner`, the session it was made
\* for; `sid`, the sessionId its current frame works on; the locals of that
\* frame; `executed` and `skipped`, how many times it invoked an activity
\* and how many steps it skipped; `thrown`, the user code that raised during
\* its step ("" if none); `workflow`, the name of the McpWorkflow instance
\* the call was made on.
NewCall(op, arg) ==
    [op |-> op, arg |-> arg, workflow |-> WorkflowName, owner |-> 0, sid |-> 0, pc |-> "entry", statsTotal |-> 0,
     stepIndex |-> 0, stepInput |-> 0, session |-> NoSession,
     result |-> NoResult, error |-> Undefined, executed |-> 0, skipped |-> 0,
     thrown |-> "", ret |-> NoRet]

\* A call that has returned or raised.
Finish(call, ret) ==
    [call EXCEPT !.pc = "done", !.statsTotal = 0, !.session = NoSession, !.ret = ret]

Idle == \A c \in 1..Len(calls) : calls[c].pc = "done"

InitWith(options) ==
    /\ config \in Workflows
    /\ manager = NewManager(options)
    /\ sessions = [i \in {} |-> NoSession]
    /\ lastSessionId = 0
    /\ nextId = 0
    /\ clock = 1
    /\ calls = <<>>
    /\ callbacks = [i \in {} |-> <<>>]
    /\ tool = IdleTool
    /\ suggest = NoSuggest
    /\ store = EmptyStore

Init == InitWith(NoOptions)

SetCall(c, rec) == calls' = [calls EXCEPT ![c] = rec]
At(c, pc) == c \in 1..Len(calls) /\ calls[c].pc = pc
NotFound(sid) == "Workflow session " \o ToString(sid) \o " not found"
StoreNotFound(sid) == "Session " \o ToString(sid) \o " not found"
\* The error passed on as the activity gave it.
OrDefault_Raw(error) == error

OrDefault(error) ==
    IF error \in {Undefined, ""} THEN "Activity failed without error message" ELSE error

\* ------------------------------------------------------ McpWorkflow.start
\* start(input), up to its first await: createSession asks the store for
\* its statistics.
StartCall(input) ==
    /\ calls' = Append(calls,
          [NewCall("start", input) EXCEPT
              !.pc = "createSession", !.statsTotal = StoreGetStats(sessions).total])
    /\ UNCHANGED <<config, manager, sessions, lastSessionId, nextId, clock, callbacks>>

\* WorkflowSessionManager.createSession after the statistics arrived: cleanup
\* when the store is at the limit, then a pending session under a fresh id.
CreateSession(c) ==
    /\ At(c, "createSession")
    /\ LET call == calls[c]
           sid == nextId + 1
           kept == IF call.statsTotal >= manager.maxSessions
                   THEN ManagerCleanup(sessions, clock) ELSE sessions
       IN  /\ sessions' = (sid :> NewSession(sid, Len(config), clock)) @@ kept
           /\ callbacks' = (sid :> <<>>) @@ callbacks
           /\ nextId' = sid
           /\ clock' = clock + 1
           /\ SetCall(c, [call EXCEPT !.owner = sid, !.sid = sid, !.pc = "start_created"])
    /\ UNCHANGED <<config, manager, lastSessionId>>

\* executeStep(sessionId, stepIndex, stepInput) up to its first await: the
\* session is loaded.
EnterExecuteStep(call, ss, sid, stepIndex, stepInput) ==
    [call EXCEPT !.sid = sid, !.stepIndex = stepIndex, !.stepInput = stepInput,
                 !.session = IF sid \in DOMAIN ss THEN ss[sid] ELSE NoSession,
                 !.pc = "exec_loaded"]

\* start once the session exists: it becomes the orchestrator's current
\* session; a truthy input is stored under the reserved key (an await);
\* otherwise the status is set to running right away.
StartCreated(c) ==
    /\ At(c, "start_created")
    /\ LET call == calls[c] IN
       /\ lastSessionId' = call.sid
       /\ IF call.arg # 0
          THEN /\ sessions' = StoreSetMemory(sessions, call.sid, WorkflowInputKey, call.arg)
               /\ SetCall(c, [call EXCEPT !.pc = "start_setRunning"])
          ELSE /\ sessions' = StoreUpdateSession(sessions, call.sid, [status |-> RUNNING])
               /\ SetCall(c, EnterExecuteStep(call, sessions', call.sid, 0, call.arg))
    /\ UNCHANGED <<config, manager, nextId, clock, callbacks>>

\* start after setMemory: the status is set to running and executeStep loads
\* the session.  The load is taken in the same step as the write: of what it
\* reads, executeStep uses only the sessionId and the memory key this start
\* wrote itself.
StartSetRunning(c) ==
    /\ At(c, "start_setRunning")
    /\ LET call == calls[c] IN
       /\ sessions' = StoreUpdateSession(sessions, call.sid, [status |-> RUNNING])
       /\ SetCall(c, EnterExecuteStep(call, sessions', call.sid, 0, call.arg))
    /\ UNCHANGED <<config, manager, lastSessionId, nextId, clock, callbacks>>

\* --------------------------------------------------- McpWorkflow.continue
\* continue() that keeps to the first session the workflow started.
EnterContinue_First(call) ==
    IF lastSessionId = 0
    THEN Finish(call, Raise("No active workflow session to continue."))
    ELSE [call EXCEPT !.owner = IF @ = 0 THEN 1 ELSE @,
                      !.sid = 1,
                      !.session = StoreGetSession(1),
                      !.pc = "cont_loaded"]

\* continue() up to its first await: it takes the orchestrator's current
\* session pointer and loads that session.
EnterContinue(call) ==
    IF lastSessionId = 0
    THEN Finish(call, Raise("No active workflow session to continue."))
    ELSE [call EXCEPT !.owner = IF @ = 0 THEN lastSessionId ELSE @,
                      !.sid = lastSessionId,
                      !.session = StoreGetSession(lastSessionId),
                      !.pc = "cont_loaded"]

ContinueCall ==
    /\ calls' = Append(calls, EnterContinue(NewCall("continue", 0)))
    /\ UNCHANGED <<config, manager, sessions, lastSessionId, nextId, clock, callbacks>>

\* completeWorkflow(sessionId) up to its first await: the session is loaded.
EnterCompleteWorkflow(call) ==
    [call EXCEPT !.session = StoreGetSession(call.sid), !.pc = "complete_loaded"]

\* A status check that rejects the completed and failed sessions only.
CanContinue_FinishedOnly(session) == session.status \notin {COMPLETED, FAILED}

\* continue() is for a running session only, and moves to the next step.
CanContinue(session) == session.status = RUNNING

\* The next step computed without the increment.
NextStepIndex_Same(session) == session.currentStep

NextStepIndex(session) == session.currentStep + 1

\* The next step run without the output of the previous one.
InputForNextStep_None(session) == 0

\* The previous step's recorded output: memory.get(previousActivityName).
InputForNextStep(session) ==
    LET previousActivityName == config[session.currentStep + 1].activity
    IN  IF previousActivityName \in DOMAIN session.memory
        THEN session.memory[previousActivityName] ELSE 0

\* continue() with the session loaded: the status check, then either the
\* completion or the next step, fed with the previous step's recorded output.
ContinueLoaded(c) ==
    /\ At(c, "cont_loaded")
    /\ LET call == calls[c]
           session == call.session
           nextStepIndex == NextStepIndex(session)
       IN  IF session.sessionId = 0
           THEN SetCall(c, Finish(call, Raise(NotFound(call.sid))))
           ELSE IF ~CanContinue(session)
           THEN SetCall(c, Finish(call,
                    Raise("Cannot continue workflow in status: " \o session.status)))
           ELSE IF nextStepIndex >= Len(config)
           THEN SetCall(c, EnterCompleteWorkflow(call))
           ELSE SetCall(c, EnterExecuteStep(call, sessions, call.sid,
                                            nextStepIndex, InputForNextStep(session)))
    /\ UNCHANGED <<config, manager, sessions, lastSessionId, nextId, clock, callbacks>>

\* ------------------------------------------------ McpWorkflow.executeStep
Step(stepIndex) == config[stepIndex + 1]
IsLastStep(stepIndex) == stepIndex = Len(config) - 1

\* shouldSkipStep(step, session): the condition is evaluated on the memory of
\* the session object loaded when executeStep began.
shouldSkipStep(step, session) ==
    IF step.condition # "none"
    THEN ~EvalCondition(step.condition, session.memory)
    ELSE FALSE

\* failWorkflow up to its first await: the session is completed as failed.
EnterFailWorkflow(c, call, error) ==
    /\ sessions' = completeSession(sessions, call.sid, FAILED, clock, OrDefault(error))
    /\ clock' = clock + 1
    /\ SetCall(c, [call EXCEPT !.error = error, !.pc = "fail_onFailure"])

\* executeStep that goes on without recording currentStep.
ExecLoaded_NoUpdate(c) ==
    /\ At(c, "exec_loaded")
    /\ LET call == calls[c] IN
       IF call.session.sessionId = 0
       THEN SetCall(c, Finish(call, Raise(NotFound(call.sid))))
       ELSE IF call.stepIndex + 1 \notin DOMAIN config
       THEN SetCall(c, Finish(call,
                Raise("Step " \o ToString(call.stepIndex) \o " not found in workflow")))
       ELSE SetCall(c, [call EXCEPT !.pc = "exec_cond"])
    /\ UNCHANGED <<config, manager, sessions, lastSessionId, nextId, clock, callbacks>>

\* executeStep with the session loaded: currentStep is recorded.
ExecLoaded(c) ==
    /\ At(c, "exec_loaded")
    /\ LET call == calls[c] IN
       IF call.session.sessionId = 0
       THEN /\ SetCall(c, Finish(call, Raise(NotFound(call.sid))))
            /\ UNCHANGED sessions
       ELSE IF call.stepIndex + 1 \notin DOMAIN config
       THEN /\ SetCall(c, Finish(call,
                   Raise("Step " \o ToString(call.stepIndex) \o " not found in workflow")))
            /\ UNCHANGED sessions
       ELSE IF call.sid \notin DOMAIN sessions
       THEN /\ SetCall(c, Finish(call, Raise(StoreNotFound(call.sid))))
            /\ UNCHANGED sessions
       ELSE /\ sessions' = StoreUpdateSession(sessions, call.sid,
                                              [currentStep |-> call.stepIndex])
            /\ SetCall(c, [call EXCEPT !.pc = "exec_cond"])
    /\ UNCHANGED <<config, manager, lastSessionId, nextId, clock, callbacks>>

\* The step's condition is false: `return this.continue()`.
ExecSkip(c) ==
    /\ At(c, "exec_cond")
    /\ ~ConditionRaises(Step(calls[c].stepIndex).condition)
    /\ shouldSkipStep(Step(calls[c].stepIndex), calls[c].session)
    /\ SetCall(c, EnterContinue([calls[c] EXCEPT !.skipped = @ + 1]))
    /\ UNCHANGED <<config, manager, sessions, lastSessionId, nextId, clock, callbacks>>

\* The step's condition raises: `await this.shouldSkipStep(step, session)` is
\* outside the try of executeStep, so the call rejects with the error.
ExecConditionRaise(c) ==
    /\ At(c, "exec_cond")
    /\ ConditionRaises(Step(calls[c].stepIndex).condition)
    /\ SetCall(c, Finish([calls[c] EXCEPT !.thrown = "condition"], Raise(ConditionError)))
    /\ UNCHANGED <<config, manager, sessions, lastSessionId, nextId, clock, callbacks>>

\* runActivityForStep up to `await activity.execute(context)`: the input is
\* passed as it is (`mappedInput || {}`).
ExecInvoke(c) ==
    /\ At(c, "exec_cond")
    /\ ~ConditionRaises(Step(calls[c].stepIndex).condition)
    /\ ~shouldSkipStep(Step(calls[c].stepIndex), calls[c].session)
    /\ SetCall(c, [calls[c] EXCEPT !.executed = @ + 1, !.pc = "activity"])
    /\ UNCHANGED <<config, manager, sessions, lastSessionId, nextId, clock, callbacks>>

\* What an activity's run stores of its own in the memory it was handed:
\* context.memory.set(CustomKey, 1).  context.memory is the memory of the
\* session object executeStep loaded, so the write lands in the call's frame.
CustomKey == "custom"
ContextWrite(session) == [session EXCEPT !.memory = (CustomKey :> 1) @@ @]

\* activity.execute settles.  A result is recorded in the history; a raise
\* (also one of the store) goes to the catch of executeStep, which fails the
\* workflow whether or not the step is optional.
ActivityReturn(c) ==
    /\ At(c, "activity")
    /\ \E outcome \in ActivityOutcomes(calls[c].stepInput) :
       LET call == calls[c] IN
       IF call.sid \notin DOMAIN sessions
       THEN /\ SetCall(c, Finish(call, Raise(StoreNotFound(call.sid))))
            /\ UNCHANGED <<sessions, clock>>
       ELSE IF outcome.raised
       THEN EnterFailWorkflow(c, [call EXCEPT !.thrown = "activity"], outcome.error)
       ELSE /\ sessions' = StoreRecordStepExecution(sessions, call.sid, call.stepIndex,
                               Step(call.stepIndex).activity, outcome.success, outcome.error)
            /\ SetCall(c, [call EXCEPT !.result = outcome, !.pc = "run_recorded",
                                        !.session = ContextWrite(@)])
            /\ UNCHANGED clock
    /\ UNCHANGED <<config, manager, lastSessionId, nextId, callbacks>>

\* runActivityForStep: result.data is written under the activity's name.
RunSetMemory(c) ==
    /\ At(c, "run_recorded")
    /\ LET call == calls[c] IN
       IF call.sid \notin DOMAIN sessions
       THEN /\ SetCall(c, Finish(call, Raise(StoreNotFound(call.sid))))
            /\ UNCHANGED sessions
       ELSE /\ sessions' = StoreSetMemory(sessions, call.sid,
                               Step(call.stepIndex).activity, call.result.data)
            /\ SetCall(c, [call EXCEPT !.pc = "run_returned"])
    /\ UNCHANGED <<config, manager, lastSessionId, nextId, clock, callbacks>>

\* executeStep with the result in hand: a failed required step fails the
\* workflow; otherwise handleSuccessfulStep completes it after the last step
\* or answers with the next step.
\* The judgement without the exemption of optional steps.
StepJudge_IgnoreOptional(call) ==
    IF ~call.result.success THEN "fail"
    ELSE IF IsLastStep(call.stepIndex) THEN "complete"
    ELSE "respond"

StepJudge(call) ==
    IF ~call.result.success /\ ~Step(call.stepIndex).optional THEN "fail"
    ELSE IF IsLastStep(call.stepIndex) THEN "complete"
    ELSE "respond"

\* handleSuccessfulStep that goes on to the next step instead of answering.
StepReturned_GoesOn(c) ==
    /\ At(c, "run_returned")
    /\ LET call == calls[c] IN
       CASE StepJudge(call) = "fail" ->
              IF call.sid \in DOMAIN sessions
              THEN EnterFailWorkflow(c, call, call.result.error)
              ELSE /\ SetCall(c, Finish(call, Raise(StoreNotFound(call.sid))))
                   /\ UNCHANGED <<sessions, clock>>
         [] StepJudge(call) = "complete" ->
              /\ SetCall(c, EnterCompleteWorkflow(call))
              /\ UNCHANGED <<sessions, clock>>
         [] OTHER ->
              /\ SetCall(c, EnterContinue(call))
              /\ UNCHANGED <<sessions, clock>>
    /\ UNCHANGED <<config, manager, lastSessionId, nextId, callbacks>>

StepReturned(c) ==
    /\ At(c, "run_returned")
    /\ LET call == calls[c] IN
       CASE StepJudge(call) = "fail" ->
              IF call.sid \in DOMAIN sessions
              THEN EnterFailWorkflow(c, call, call.result.error)
              ELSE /\ SetCall(c, Finish(call, Raise(StoreNotFound(call.sid))))
                   /\ UNCHANGED <<sessions, clock>>
         [] StepJudge(call) = "complete" ->
              /\ SetCall(c, EnterCompleteWorkflow(call))
              /\ UNCHANGED <<sessions, clock>>
         [] OTHER ->
              /\ SetCall(c, [call EXCEPT !.pc = "step_respond"])
              /\ UNCHANGED <<sessions, clock>>
    /\ UNCHANGED <<config, manager, lastSessionId, nextId, callbacks>>

\* handleSuccessfulStep for a step that is not the last: the response, with
\* the suggestions built from the step's result as nextInstructions.
StepRespond(c) ==
    /\ At(c, "step_respond")
    /\ LET call == calls[c]
           memory == IF call.sid \in DOMAIN sessions
                     THEN sessions[call.sid].memory ELSE EmptyMemory
           toolSuggestions ==
               buildToolCallSuggestions(IsLastStep(call.stepIndex),
                   StepBranches(call.stepIndex), call.result.data,
                   ActivitySuggestions(call.stepIndex), call.sid, call.stepInput, memory)
       IN
       SetCall(c, Finish(call, [Response(FALSE,
           "Step " \o ToString(call.stepIndex) \o " ("
                   \o Step(call.stepIndex).activity \o ") completed successfully",
           StoreGetSession(call.sid)) EXCEPT !.nextInstructions = toolSuggestions]))
    /\ UNCHANGED <<config, manager, sessions, lastSessionId, nextId, clock, callbacks>>

Invoke(c, name, status) ==
    callbacks' = [callbacks EXCEPT ![calls[c].sid] =
                     Append(@, [name |-> name, status |-> status])]

\* handleFailedStep / failWorkflow: onFailure, onComplete, the failure response.
FailOnFailure(c) ==
    /\ At(c, "fail_onFailure")
    /\ Invoke(c, "onFailure", FAILED)
    /\ SetCall(c, [calls[c] EXCEPT !.pc = "fail_onComplete"])
    /\ UNCHANGED <<config, manager, sessions, lastSessionId, nextId, clock>>

FailOnComplete(c) ==
    /\ At(c, "fail_onComplete")
    /\ Invoke(c, "onComplete", FAILED)
    /\ SetCall(c, [calls[c] EXCEPT !.pc = "fail_respond"])
    /\ UNCHANGED <<config, manager, sessions, lastSessionId, nextId, clock>>

FailRespond(c) ==
    /\ At(c, "fail_respond")
    /\ LET call == calls[c] IN
       SetCall(c, Finish(call, Response(TRUE,
           "Workflow failed at step " \o ToString(call.stepIndex) \o " ("
                   \o Step(call.stepIndex).activity \o "): " \o call.error,
           StoreGetSession(call.sid))))
    /\ UNCHANGED <<config, manager, sessions, lastSessionId, nextId, clock, callbacks>>

\* completeWorkflow with the session loaded: completed, onSuccess,
\* onComplete, the final response.
CompleteLoaded(c) ==
    /\ At(c, "complete_loaded")
    /\ LET call == calls[c] IN
       IF call.session.sessionId = 0
       THEN /\ SetCall(c, Finish(call, Raise(NotFound(call.sid))))
            /\ UNCHANGED <<sessions, clock>>
       ELSE IF call.sid \notin DOMAIN sessions
       THEN /\ SetCall(c, Finish(call, Raise(StoreNotFound(call.sid))))
            /\ UNCHANGED <<sessions, clock>>
       ELSE /\ sessions' = completeSession(sessions, call.sid, COMPLETED, clock, Undefined)
            /\ clock' = clock + 1
            /\ SetCall(c, [call EXCEPT !.pc = "complete_onSuccess"])
    /\ UNCHANGED <<config, manager, lastSessionId, nextId, callbacks>>

\* completeWorkflow with the two callbacks in the other order.
CompleteOnSuccess_OnCompleteFirst(c) ==
    /\ At(c, "complete_onSuccess")
    /\ Invoke(c, "onComplete", COMPLETED)
    /\ SetCall(c, [calls[c] EXCEPT !.pc = "complete_onComplete"])
    /\ UNCHANGED <<config, manager, sessions, lastSessionId, nextId, clock>>

CompleteOnSuccess(c) ==
    /\ At(c, "complete_onSuccess")
    /\ Invoke(c, "onSuccess", COMPLETED)
    /\ SetCall(c, [calls[c] EXCEPT !.pc = "complete_onComplete"])
    /\ UNCHANGED <<config, manager, sessions, lastSessionId, nextId, clock>>

CompleteOnComplete(c) ==
    /\ At(c, "complete_onComplete")
    /\ Invoke(c, "onComplete", COMPLETED)
    /\ SetCall(c, [calls[c] EXCEPT !.pc = "complete_respond"])
    /\ UNCHANGED <<config, manager, sessions, lastSessionId, nextId, clock>>

CompleteRespond(c) ==
    /\ At(c, "complete_respond")
    /\ SetCall(c, Finish(calls[c], Response(FALSE, "Workflow completed successfully",
                                             StoreGetSession(calls[c].sid))))
    /\ UNCHANGED <<config, manager, sessions, lastSessionId, nextId, clock, callbacks>>

\* ----------------------------------------------------- McpWorkflow.cancel
\* Any id the caller may hold: those handed out, and one that was not.
CancelCall(sessionId) ==
    /\ calls' = Append(calls,
          [NewCall("cancel", sessionId) EXCEPT
              !.owner = sessionId, !.sid = sessionId, !.session = StoreGetSession(sessionId),
              !.pc = "cancel_loaded"])
    /\ UNCHANGED <<config, manager, sessions, lastSessionId, nextId, clock, callbacks>>

CancelLoaded(c) ==
    /\ At(c, "cancel_loaded")
    /\ LET call == calls[c] IN
       IF call.session.sessionId = 0
       THEN /\ SetCall(c, Finish(call, Raise(NotFound(call.sid))))
            /\ UNCHANGED <<sessions, clock>>
       ELSE IF call.sid \notin DOMAIN sessions
       THEN /\ SetCall(c, Finish(call, Raise(StoreNotFound(call.sid))))
            /\ UNCHANGED <<sessions, clock>>
       ELSE /\ sessions' = completeSession(sessions, call.sid, CANCELLED, clock, Undefined)
            /\ clock' = clock + 1
            /\ SetCall(c, [call EXCEPT !.pc = "cancel_onComplete"])
    /\ UNCHANGED <<config, manager, lastSessionId, nextId, callbacks>>

CancelOnComplete(c) ==
    /\ At(c, "cancel_onComplete")
    /\ Invoke(c, "onComplete", CANCELLED)
    /\ SetCall(c, Finish(calls[c], Response(FALSE, "", NoSession)))
    /\ UNCHANGED <<config, manager, sessions, lastSessionId, nextId, clock>>

\* ------------------------------------------------------ McpWorkflow.pause
\* pause(sessionId), which the sources at hand do not contain: an unknown
\* session id is raised to the caller; a session that is not running is
\* rejected and left as it is; a running one gets the status paused, by an
\* update of the status alone.
PAUSED == "paused"
CannotPause(status) == "Cannot pause workflow in status: " \o status

PauseCall(sessionId) ==
    /\ calls' = Append(calls,
          [NewCall("pause", sessionId) EXCEPT
              !.owner = sessionId, !.sid = sessionId, !.session = StoreGetSession(sessionId),
              !.pc = "pause_loaded"])
    /\ UNCHANGED <<config, manager, sessions, lastSessionId, nextId, clock, callbacks>>

\* pause that does not look at the status.
PauseLoaded_AnyStatus(c) ==
    /\ At(c, "pause_loaded")
    /\ LET call == calls[c] IN
       IF call.session.sessionId = 0 \/ call.sid \notin DOMAIN sessions
       THEN /\ SetCall(c, Finish(call, Raise(NotFound(call.sid))))
            /\ UNCHANGED sessions
       ELSE /\ sessions' = StoreUpdateSession(sessions, call.sid, [status |-> PAUSED])
            /\ SetCall(c, Finish(call, Response(FALSE, "", NoSession)))
    /\ UNCHANGED <<config, manager, lastSessionId, nextId, clock, callbacks>>

PauseLoaded(c) ==
    /\ At(c, "pause_loaded")
    /\ LET call == calls[c] IN
       IF call.session.sessionId = 0 \/ call.sid \notin DOMAIN sessions
       THEN /\ SetCall(c, Finish(call, Raise(NotFound(call.sid))))
            /\ UNCHANGED sessions
       ELSE IF call.session.status # RUNNING
       THEN /\ SetCall(c, Finish(call, Raise(CannotPause(call.session.status))))
            /\ UNCHANGED sessions
       ELSE /\ sessions' = StoreUpdateSession(sessions, call.sid, [status |-> PAUSED])
            /\ SetCall(c, Finish(call, Response(FALSE, "", NoSession)))
    /\ UNCHANGED <<config, manager, lastSessionId, nextId, clock, callbacks>>

\* ------------------------------------------------ McpActivityTool.execute
OrchestratorVars == <<config, manager, sessions, lastSessionId, nextId, clock, calls, callbacks>>

\* execute up to `await this.runActivity(context)`: validateInput, then
\* callbacks.run is invoked, raced against the timer when a timeout is set.
\* A validation error goes to the catch block.
EnterExecute(t) ==
    LET t1 == [t EXCEPT !.executes = @ + 1, !.hooks = <<>>, !.pending = Undefined,
                        !.timedOut = FALSE, !.ran = NoRun, !.result = NoResult]
    IN  IF ~validateInput(t.cfg, t.input)
        THEN [t1 EXCEPT !.result = Failure(InputError), !.pc = "catch"]
        ELSE [t1 EXCEPT !.runs = @ + 1,
                        !.pc = IF t.cfg.timeout # 0 THEN "race" ELSE "run"]

ExecuteCall(cfg, input) ==
    /\ tool.pc = "idle"
    /\ tool' = EnterExecute([tool EXCEPT !.cfg = cfg, !.input = input, !.op = "execute"])
    /\ UNCHANGED <<OrchestratorVars, suggest, store>>

\* executeWithRetry: without a retry policy it is execute; with one, the
\* first attempt.
ExecuteWithRetryCall(cfg, input) ==
    /\ tool.pc = "idle"
    /\ tool' = EnterExecute([tool EXCEPT !.cfg = cfg, !.input = input,
                                         !.op = "executeWithRetry"])
    /\ UNCHANGED <<OrchestratorVars, suggest, store>>

\* callbacks.run settles while execute awaits it.  A raise goes to the catch
\* block; a result has its success defaulted (`success !== false`) and its
\* data validated, a validation error going to the catch block.
RunSettles ==
    /\ tool.pc \in {"run", "race"}
    /\ \E r \in RunOutcomes :
       LET t == [tool EXCEPT !.ran = r,
                            !.runSuccesses = IF r.kind = "return" /\ r.success # "false"
                                             THEN @ + 1 ELSE @]
           result == [raised |-> FALSE, success |-> r.success # "false",
                      data |-> r.data, error |-> r.error]
       IN  tool' =
             IF r.kind = "raise"
             THEN [t EXCEPT !.result = Failure(r.error), !.pc = "catch"]
             ELSE IF ~validateOutput(t.cfg, result.data)
             THEN [t EXCEPT !.result = Failure(OutputError), !.pc = "catch"]
             ELSE [t EXCEPT !.result = result, !.pc = "post"]
    /\ UNCHANGED <<OrchestratorVars, suggest, store>>

\* executeWithTimeout: the timer fires first; Promise.race rejects with the
\* timeout error and the run stays in flight.
TimerFires ==
    /\ tool.pc = "race"
    /\ tool' = [tool EXCEPT !.result = Failure(TimeoutError(tool.cfg.timeout)),
                            !.timedOut = TRUE, !.abandoned = @ + 1, !.pc = "catch"]
    /\ UNCHANGED <<OrchestratorVars, suggest, store>>

\* A run left in flight by a timeout settles: the race is over, nothing
\* reads its result.
LateRunSettles ==
    /\ tool.abandoned > 0
    /\ tool' = [tool EXCEPT !.abandoned = @ - 1, !.late = @ + 1]
    /\ UNCHANGED <<OrchestratorVars, suggest, store>>

\* runPostExecutionCallbacks: onSuccess or onFailure, by result.success.  A
\* hook that raises sends execute to its catch block.
RunPostExecutionCallbacks ==
    /\ tool.pc = "post"
    /\ \E raises \in BOOLEAN :
       LET hook == IF tool.result.success THEN "onSuccess" ELSE "onFailure"
           t == [tool EXCEPT !.hooks = Append(@, hook)]
       IN  tool' = IF raises
                   THEN [t EXCEPT !.result = Failure(HookError(hook)), !.pc = "catch"]
                   ELSE [t EXCEPT !.pc = "finally"]
    /\ UNCHANGED <<OrchestratorVars, suggest, store>>

\* The catch block: result is the failure, onFailure is invoked.  If it
\* raises, the error leaves execute once the finally block has run.
CatchOnFailure ==
    /\ tool.pc = "catch"
    /\ \E raises \in BOOLEAN :
       tool' = [tool EXCEPT !.hooks = Append(@, "onFailure"),
                            !.pending = IF raises THEN HookError("onFailure") ELSE Undefined,
                            !.pc = "finally"]
    /\ UNCHANGED <<OrchestratorVars, suggest, store>>

\* The retry loop goes on while attempt < maxAttempts (one attempt too many).
RetryAgain_OneMore(attempt, maxAttempts) == attempt <= maxAttempts

RetryAgain(attempt, maxAttempts) == attempt < maxAttempts

\* execute has ended with `outcome`.  For execute, and for executeWithRetry
\* without a policy, that is the answer.  In the retry loop a success result
\* is returned; a failure result or a raise is kept as lastError and either
\* the backoff begins or the attempts are used up.
AfterExecute(t) ==
    IF t.op = "execute" \/ t.cfg.maxAttempts = 0
    THEN [t EXCEPT !.pc = "done", !.ret = t.outcome]
    ELSE IF ~t.outcome.raised /\ t.outcome.success
    THEN [t EXCEPT !.pc = "done", !.ret = t.outcome]
    ELSE LET lastError ==
                 IF t.outcome.raised THEN t.outcome.error
                 ELSE IF t.outcome.error \in {Undefined, ""} THEN "Activity failed"
                 ELSE t.outcome.error
             attempt == t.attempt + 1
         IN  IF RetryAgain(attempt, t.cfg.maxAttempts)
             THEN [t EXCEPT !.attempt = attempt, !.lastError = lastError, !.pc = "backoff"]
             ELSE [t EXCEPT !.attempt = attempt, !.lastError = lastError, !.pc = "done",
                            !.ret = Failure(RetryError(t.cfg.maxAttempts, lastError))]

\* The finally block: onComplete is invoked, then execute returns its result
\* or lets the pending error out; an error of onComplete replaces both.
FinallyOnComplete ==
    /\ tool.pc = "finally"
    /\ \E raises \in BOOLEAN :
       LET outcome == IF raises THEN Raised(HookError("onComplete"))
                      ELSE IF tool.pending # Undefined THEN Raised(tool.pending)
                      ELSE tool.result
       IN  tool' = AfterExecute([tool EXCEPT !.hooks = Append(@, "onComplete"),
                                             !.outcome = outcome])
    /\ UNCHANGED <<OrchestratorVars, suggest, store>>

\* executeWithRetry: the backoff timer ends and the next attempt begins.
BackoffEnds ==
    /\ tool.pc = "backoff"
    /\ tool' = EnterExecute(tool)
    /\ UNCHANGED <<OrchestratorVars, suggest, store>>

\* ------------------------------------------------------ specifications
Inputs == {0, 1}
SessionIds == 1..(nextId + 1)
CallIds == 1..Len(calls)

\* Calls made one at a time: the next begins when the last has settled.
MayCall == Idle /\ Len(calls) < MaxCalls

Next ==
    \/ MayCall /\ \E input \in Inputs : StartCall(input) /\ UNCHANGED <<tool, suggest, store>>
    \/ MayCall /\ ContinueCall /\ UNCHANGED <<tool, suggest, store>>
    \/ MayCall /\ \E sessionId \in SessionIds : CancelCall(sessionId) /\ UNCHANGED <<tool, suggest, store>>
    \/ \E c \in CallIds : CreateSession(c) /\ UNCHANGED <<tool, suggest, store>>
    \/ \E c \in CallIds : StartCreated(c) /\ UNCHANGED <<tool, suggest, store>>
    \/ \E c \in CallIds : StartSetRunning(c) /\ UNCHANGED <<tool, suggest, store>>
    \/ \E c \in CallIds : ContinueLoaded(c) /\ UNCHANGED <<tool, suggest, store>>
    \/ \E c \in CallIds : ExecLoaded(c) /\ UNCHANGED <<tool, suggest, store>>
    \/ \E c \in CallIds : ExecSkip(c) /\ UNCHANGED <<tool, suggest, store>>
    \/ \E c \in CallIds : ExecConditionRaise(c) /\ UNCHANGED <<tool, suggest, store>>
    \/ \E c \in CallIds : ExecInvoke(c) /\ UNCHANGED <<tool, suggest, store>>
    \/ \E c \in CallIds : ActivityReturn(c) /\ UNCHANGED <<tool, suggest, store>>
    \/ \E c \in CallIds : RunSetMemory(c) /\ UNCHANGED <<tool, suggest, store>>
    \/ \E c \in CallIds : StepReturned(c) /\ UNCHANGED <<tool, suggest, store>>
    \/ \E c \in CallIds : StepRespond(c) /\ UNCHANGED <<tool, suggest, store>>
    \/ \E c \in CallIds : FailOnFailure(c) /\ UNCHANGED <<tool, suggest, store>>
    \/ \E c \in CallIds : FailOnComplete(c) /\ UNCHANGED <<tool, suggest, store>>
    \/ \E c \in CallIds : FailRespond(c) /\ UNCHANGED <<tool, suggest, store>>
    \/ \E c \in CallIds : CompleteLoaded(c) /\ UNCHANGED <<tool, suggest, store>>
    \/ \E c \in CallIds : CompleteOnSuccess(c) /\ UNCHANGED <<tool, suggest, store>>
    \/ \E c \in CallIds : CompleteOnComplete(c) /\ UNCHANGED <<tool, suggest, store>>
    \/ \E c \in CallIds : CompleteRespond(c) /\ UNCHANGED <<tool, suggest, store>>
    \/ \E c \in CallIds : CancelLoaded(c) /\ UNCHANGED <<tool, suggest, store>>
    \/ \E c \in CallIds : CancelOnComplete(c) /\ UNCHANGED <<tool, suggest, store>>

Spec == Init /\ [][Next]_vars

\* Calls in flight together, interleaved at their awaits.  These
\* specifications explore the workflows whose steps are all required.
RequiredOnly == {s \in Workflows : \A i \in DOMAIN s : ~s[i].optional}

InitAsync == Init /\ config \in RequiredOnly

MayCallAsync == Len(calls) < MaxAsyncCalls

\* A sessionId is a random UUID: the caller can name that of a stored session
\* only once the start that created it has handed it out, to an activity
\* (context.sessionId), to a workflow callback, or in its response.
Issued(sessionId) ==
    \A c \in CallIds :
        (calls[c].op = "start" /\ calls[c].owner = sessionId)
        => \/ calls[c].executed > 0
           \/ calls[c].pc = "done"
           \/ callbacks[sessionId] # <<>>

NextAsync ==
    \/ MayCallAsync /\ \E input \in Inputs : StartCall(input) /\ UNCHANGED <<tool, suggest, store>>
    \/ MayCallAsync /\ ContinueCall /\ UNCHANGED <<tool, suggest, store>>
    \/ MayCallAsync /\ \E sessionId \in SessionIds : Issued(sessionId) /\ CancelCall(sessionId) /\ UNCHANGED <<tool, suggest, store>>
    \/ \E c \in CallIds : CreateSession(c) /\ UNCHANGED <<tool, suggest, store>>
    \/ \E c \in CallIds : StartCreated(c) /\ UNCHANGED <<tool, suggest, store>>
    \/ \E c \in CallIds : StartSetRunning(c) /\ UNCHANGED <<tool, suggest, store>>
    \/ \E c \in CallIds : ContinueLoaded(c) /\ UNCHANGED <<tool, suggest, store>>
    \/ \E c \in CallIds : ExecLoaded(c) /\ UNCHANGED <<tool, suggest, store>>
    \/ \E c \in CallIds : ExecSkip(c) /\ UNCHANGED <<tool, suggest, store>>
    \/ \E c \in CallIds : ExecConditionRaise(c) /\ UNCHANGED <<tool, suggest, store>>
    \/ \E c \in CallIds : ExecInvoke(c) /\ UNCHANGED <<tool, suggest, store>>
    \/ \E c \in CallIds : ActivityReturn(c) /\ UNCHANGED <<tool, suggest, store>>
    \/ \E c \in CallIds : RunSetMemory(c) /\ UNCHANGED <<tool, suggest, store>>
    \/ \E c \in CallIds : StepReturned(c) /\ UNCHANGED <<tool, suggest, store>>
    \/ \E c \in CallIds : StepRespond(c) /\ UNCHANGED <<tool, suggest, store>>
    \/ \E c \in CallIds : FailOnFailure(c) /\ UNCHANGED <<tool, suggest, store>>
    \/ \E c \in CallIds : FailOnComplete(c) /\ UNCHANGED <<tool, suggest, store>>
    \/ \E c \in CallIds : FailRespond(c) /\ UNCHANGED <<tool, suggest, store>>
    \/ \E c \in CallIds : CompleteLoaded(c) /\ UNCHANGED <<tool, suggest, store>>
    \/ \E c \in CallIds : CompleteOnSuccess(c) /\ UNCHANGED <<tool, suggest, store>>
    \/ \E c \in CallIds : CompleteOnComplete(c) /\ UNCHANGED <<tool, suggest, store>>
    \/ \E c \in CallIds : CompleteRespond(c) /\ UNCHANGED <<tool, suggest, store>>
    \/ \E c \in CallIds : CancelLoaded(c) /\ UNCHANGED <<tool, suggest, store>>
    \/ \E c \in CallIds : CancelOnComplete(c) /\ UNCHANGED <<tool, suggest, store>>

SpecAsync == InitAsync /\ [][NextAsync]_vars

\* Calls in flight together, but never two made for the same session: the
\* caller waits for the call it made for a session before making another
\* for it (continue() is made for the orchestrator's current session).
Busy(sessionId) ==
    /\ sessionId # 0
    /\ \E c \in CallIds : calls[c].pc # "done" /\ calls[c].owner = sessionId

NextPerSession ==
    \/ MayCallAsync /\ \E input \in Inputs : StartCall(input) /\ UNCHANGED <<tool, suggest, store>>
    \/ MayCallAsync /\ ~Busy(lastSessionId) /\ ContinueCall /\ UNCHANGED <<tool, suggest, store>>
    \/ MayCallAsync /\ \E sessionId \in SessionIds : ~Busy(sessionId) /\ CancelCall(sessionId) /\ UNCHANGED <<tool, suggest, store>>
    \/ \E c \in CallIds : CreateSession(c) /\ UNCHANGED <<tool, suggest, store>>
    \/ \E c \in CallIds : StartCreated(c) /\ UNCHANGED <<tool, suggest, store>>
    \/ \E c \in CallIds : StartSetRunning(c) /\ UNCHANGED <<tool, suggest, store>>
    \/ \E c \in CallIds : ContinueLoaded(c) /\ UNCHANGED <<tool, suggest, store>>
    \/ \E c \in CallIds : ExecLoaded(c) /\ UNCHANGED <<tool, suggest, store>>
    \/ \E c \in CallIds : ExecSkip(c) /\ UNCHANGED <<tool, suggest, store>>
    \/ \E c \in CallIds : ExecConditionRaise(c) /\ UNCHANGED <<tool, suggest, store>>
    \/ \E c \in CallIds : ExecInvoke(c) /\ UNCHANGED <<tool, suggest, store>>
    \/ \E c \in CallIds : ActivityReturn(c) /\ UNCHANGED <<tool, suggest, store>>
    \/ \E c \in CallIds : RunSetMemory(c) /\ UNCHANGED <<tool, suggest, store>>
    \/ \E c \in CallIds : StepReturned(c) /\ UNCHANGED <<tool, suggest, store>>
    \/ \E c \in CallIds : StepRespond(c) /\ UNCHANGED <<tool, suggest, store>>
    \/ \E c \in CallIds : FailOnFailure(c) /\ UNCHANGED <<tool, suggest, store>>
    \/ \E c \in CallIds : FailOnComplete(c) /\ UNCHANGED <<tool, suggest, store>>
    \/ \E c \in CallIds : FailRespond(c) /\ UNCHANGED <<tool, suggest, store>>
    \/ \E c \in CallIds : CompleteLoaded(c) /\ UNCHANGED <<tool, suggest, store>>
    \/ \E c \in CallIds : CompleteOnSuccess(c) /\ UNCHANGED <<tool, suggest, store>>
    \/ \E c \in CallIds : CompleteOnComplete(c) /\ UNCHANGED <<tool, suggest, store>>
    \/ \E c \in CallIds : CompleteRespond(c) /\ UNCHANGED <<tool, suggest, store>>
    \/ \E c \in CallIds : CancelLoaded(c) /\ UNCHANGED <<tool, suggest, store>>
    \/ \E c \in CallIds : CancelOnComplete(c) /\ UNCHANGED <<tool, suggest, store>>

SpecPerSession == InitAsync /\ [][NextPerSession]_vars

\* One call of a standalone activity tool, of any configuration, on any input.
InitActivity ==
    /\ Init
    /\ config = <<[activity |-> ActivityName(0), optional |-> FALSE, condition |-> "none"]>>

NextActivity ==
    \/ \E cfg \in ActivityConfig, input \in ToolValues : ExecuteCall(cfg, input)
    \/ \E cfg \in ActivityConfig, input \in ToolValues : ExecuteWithRetryCall(cfg, input)
    \/ RunSettles
    \/ TimerFires
    \/ LateRunSettles
    \/ RunPostExecutionCallbacks
    \/ CatchOnFailure
    \/ FinallyOnComplete
    \/ BackoffEnds

SpecActivity == InitActivity /\ [][NextActivity]_vars

\* ------------------------------- InMemoryWorkflowStore, used directly
\* A new object of the heap; its reference is the old st.nextRef.
Put(st, kind, value) ==
    [st EXCEPT ![kind] = (st.nextRef :> value) @@ @, !.nextRef = @ + 1]
Hold(st, obj, from) ==
    [st EXCEPT !.held = Append(@, [obj |-> obj, from |-> from])]

\* {...session, memory: <map>, history: <array>, branchHistory: <array>} as a
\* new object.
PutSession(st, session, memory, history, branchHistory) ==
    Put(st, "objs", [session EXCEPT !.memory = memory, !.history = history,
                                    !.branchHistory = branchHistory])

\* The session object with its Map and arrays read out.
Deref(st, obj) ==
    [st.objs[obj] EXCEPT !.memory = st.maps[@], !.history = st.arrays[@],
                         !.branchHistory = st.arrays[@]]
\* What getSession, getMemory and listSessions can return: the stored sessions.
Stored(st) == [i \in DOMAIN st.at |-> Deref(st, st.at[i])]

\* {...session}: a new object holding the stored Map and arrays.
CopySession_Shallow(st, obj) ==
    LET o == st.objs[obj]
    IN  PutSession(st, o, o.memory, o.history, o.branchHistory)

\* {...session, memory: new Map(session.memory), history: [...session.history],
\* branchHistory: [...session.branchHistory]}; the copy is the object before
\* the result's nextRef.
CopySession(st, obj) ==
    LET o == st.objs[obj]
        st1 == Put(st, "maps", st.maps[o.memory])
        st2 == Put(st1, "arrays", st.arrays[o.history])
        st3 == Put(st2, "arrays", st.arrays[o.branchHistory])
    IN  PutSession(st3, o, st.nextRef, st1.nextRef, st2.nextRef)

Done(st, last) == [st EXCEPT !.ops = @ + 1, !.now = @ + 1, !.last = last]
MayUseStore == store.ops < MaxStoreOps
StoreIds == 1..MaxStoreIds

\* The client builds a session (as WorkflowSessionManager.createSession does,
\* here with one memory key and one entry in each array) and passes it to
\* createSession: the stored object is a new one holding the session's own
\* Map and copies of its arrays; it is set under the id whether or not the id
\* is taken, and it is what createSession returns.
StoreCreateSession(id, status, startedAt) ==
    /\ MayUseStore
    /\ LET st1 == Put(store, "maps", [k \in {"a"} |-> 1])
           st2 == Put(st1, "arrays", <<1>>)
           st3 == Put(st2, "arrays", <<1>>)
           session == [NewSession(id, 1, startedAt) EXCEPT !.status = status]
           st4 == PutSession(st3, session, store.nextRef, st1.nextRef, st2.nextRef)
           passed == st3.nextRef
           st5 == Put(st4, "arrays", st4.arrays[st4.objs[passed].history])
           st6 == Put(st5, "arrays", st4.arrays[st4.objs[passed].branchHistory])
           st7 == PutSession(st6, st4.objs[passed], st4.objs[passed].memory,
                             st4.nextRef, st5.nextRef)
           stored == st6.nextRef
           st8 == [st7 EXCEPT !.at = (id :> stored) @@ @,
                              !.order = IF id \in DOMAIN store.at THEN @ ELSE Append(@, id)]
       IN  store' = Done(Hold(Hold(st8, passed, "passed"), stored, "createSession"),
                         [NoOp EXCEPT !.op = "createSession", !.id = id,
                                      !.existed = id \in DOMAIN store.at])
    /\ UNCHANGED <<OrchestratorVars, tool, suggest>>

\* getSession: undefined, or a copy of the stored object.
StoreGetSessionCall(id) ==
    /\ MayUseStore
    /\ LET last == [NoOp EXCEPT !.op = "getSession", !.id = id,
                                !.existed = id \in DOMAIN store.at]
       IN  IF id \notin DOMAIN store.at
           THEN store' = Done(store, last)
           ELSE LET st1 == CopySession(store, store.at[id])
                IN  store' = Done(Hold(st1, st1.nextRef - 1, "getSession"), last)
    /\ UNCHANGED <<OrchestratorVars, tool, suggest>>

\* listSessions({status}): copies of the stored objects, in the order of the
\* Map (workflowName, limit and offset are not given).
RECURSIVE CopyAll(_, _)
CopyAll(st, ids) ==
    IF ids = <<>> THEN st
    ELSE LET st1 == CopySession(st, st.at[Head(ids)])
         IN  CopyAll(Hold(st1, st1.nextRef - 1, "listSessions"), Tail(ids))

StoreListSessions(statuses) ==
    /\ MayUseStore
    /\ LET Listed(i) == Deref(store, store.at[i]).status \in statuses
       IN  store' = Done(CopyAll(store, SelectSeq(store.order, Listed)),
                         [NoOp EXCEPT !.op = "listSessions"])
    /\ UNCHANGED <<OrchestratorVars, tool, suggest>>

\* updateSession(id, partial): raises on an unknown id; else the merge is a
\* new object set under the id.  `memory` in a partial stands for a Map the
\* client makes for the call (one key, "u").
Partials ==
    {[status |-> COMPLETED], [currentStep |-> 1, error |-> "e"],
     [sessionId |-> MaxStoreIds + 1, workflowName |-> "other", status |-> FAILED],
     [memory |-> 0]}

StoreUpdateSessionCall(id, partial) ==
    /\ MayUseStore
    /\ LET last == [NoOp EXCEPT !.op = "updateSession", !.id = id, !.partial = partial,
                                !.existed = id \in DOMAIN store.at]
       IN  IF id \notin DOMAIN store.at
           THEN store' = Done(store, [last EXCEPT !.raised = TRUE])
           ELSE LET st1 == IF "memory" \in DOMAIN partial
                           THEN Put(store, "maps", [k \in {"u"} |-> 1]) ELSE store
                    updates == IF "memory" \in DOMAIN partial
                               THEN [memory |-> store.nextRef] ELSE partial
                    existing == [i \in {id} |-> store.objs[store.at[id]]]
                    updated == StoreUpdateSession(existing, id, updates)[id]
                    st2 == Put(st1, "objs", updated)
                IN  store' = Done([st2 EXCEPT !.at[id] = st1.nextRef], last)
    /\ UNCHANGED <<OrchestratorVars, tool, suggest>>

\* cleanup(options): the sessions StoreCleanup drops leave the Map; the
\* number of them is returned.
CleanupOptions ==
    {[maxAge |-> 2], [maxAge |-> 0], [maxSessions |-> 1], [maxSessions |-> 0],
     [statuses |-> {COMPLETED}], [maxAge |-> 2, maxSessions |-> 1, statuses |-> {COMPLETED}]}

StoreCleanupCall(options) ==
    /\ MayUseStore
    /\ LET pos == [i \in DOMAIN store.at |->
                      CHOOSE n \in DOMAIN store.order : store.order[n] = i]
           rest == StoreCleanup(Stored(store), pos, store.now, options)
           Kept(i) == i \in DOMAIN rest
       IN  store' = Done([store EXCEPT !.at = [i \in DOMAIN rest |-> store.at[i]],
                                       !.order = SelectSeq(store.order, Kept)],
                         [NoOp EXCEPT !.op = "cleanup", !.options = options,
                             !.count = Cardinality(DOMAIN store.at) - Cardinality(DOMAIN rest)])
    /\ UNCHANGED <<OrchestratorVars, tool, suggest>>

\* setMemory(id, key, value): session.memory.set on the stored object's Map.
StoreSetMemoryCall(id) ==
    /\ MayUseStore
    /\ LET last == [NoOp EXCEPT !.op = "setMemory", !.id = id,
                                !.existed = id \in DOMAIN store.at]
       IN  IF id \notin DOMAIN store.at
           THEN store' = Done(store, [last EXCEPT !.raised = TRUE])
           ELSE LET m == store.objs[store.at[id]].memory
                IN  store' = Done([store EXCEPT !.maps[m] = ("s" :> 1) @@ @], last)
    /\ UNCHANGED <<OrchestratorVars, tool, suggest>>

\* The client changes a session object it holds: it sets or deletes a memory
\* key, or pushes or pops an entry of history or branchHistory.
Mutations == {"set", "delete", "push history", "pop history",
              "push branchHistory", "pop branchHistory"}
Pop(array) == IF array = <<>> THEN array ELSE SubSeq(array, 1, Len(array) - 1)
Without(memory, key) == [k \in DOMAIN memory \ {key} |-> memory[k]]

ClientMutates(h, mutation) ==
    /\ MayUseStore
    /\ h \in DOMAIN store.held
    /\ LET o == store.objs[store.held[h].obj]
           st1 == CASE mutation = "set" ->
                         [store EXCEPT !.maps[o.memory] = ("x" :> 1) @@ @]
                     [] mutation = "delete" ->
                         [store EXCEPT !.maps[o.memory] = Without(@, "a")]
                     [] mutation = "push history" ->
                         [store EXCEPT !.arrays[o.history] = Append(@, 2)]
                     [] mutation = "pop history" ->
                         [store EXCEPT !.arrays[o.history] = Pop(@)]
                     [] mutation = "push branchHistory" ->
                         [store EXCEPT !.arrays[o.branchHistory] = Append(@, 2)]
                     [] OTHER ->
                         [store EXCEPT !.arrays[o.branchHistory] = Pop(@)]
       IN  store' = Done(st1, [NoOp EXCEPT !.op = "mutate", !.h = h,
                                           !.from = store.held[h].from])
    /\ UNCHANGED <<OrchestratorVars, tool, suggest>>

InitStore == InitActivity

NextStore ==
    \/ \E id \in StoreIds, status \in {RUNNING, COMPLETED}, startedAt \in {0, store.now} :
          StoreCreateSession(id, status, startedAt)
    \/ \E id \in StoreIds : StoreGetSessionCall(id)
    \/ \E statuses \in {WorkflowStatus, {RUNNING}} : StoreListSessions(statuses)
    \/ \E id \in StoreIds, partial \in Partials : StoreUpdateSessionCall(id, partial)
    \/ \E options \in CleanupOptions : StoreCleanupCall(options)
    \/ \E id \in StoreIds : StoreSetMemoryCall(id)
    \/ \E h \in DOMAIN store.held, mutation \in Mutations : ClientMutates(h, mutation)

SpecStore == InitStore /\ [][NextStore]_vars

\* The operations with pause among them, calls made one at a time.
InitPause == Init

NextPause ==
    \/ MayCall /\ \E input \in Inputs : StartCall(input) /\ UNCHANGED <<tool, suggest, store>>
    \/ MayCall /\ ContinueCall /\ UNCHANGED <<tool, suggest, store>>
    \/ MayCall /\ \E sessionId \in SessionIds : CancelCall(sessionId) /\ UNCHANGED <<tool, suggest, store>>
    \/ \E c \in CallIds : CreateSession(c) /\ UNCHANGED <<tool, suggest, store>>
    \/ \E c \in CallIds : StartCreated(c) /\ UNCHANGED <<tool, suggest, store>>
    \/ \E c \in CallIds : StartSetRunning(c) /\ UNCHANGED <<tool, suggest, store>>
    \/ \E c \in CallIds : ContinueLoaded(c) /\ UNCHANGED <<tool, suggest, store>>
    \/ \E c \in CallIds : ExecLoaded(c) /\ UNCHANGED <<tool, suggest, store>>
    \/ \E c \in CallIds : ExecSkip(c) /\ UNCHANGED <<tool, suggest, store>>
    \/ \E c \in CallIds : ExecConditionRaise(c) /\ UNCHANGED <<tool, suggest, store>>
    \/ \E c \in CallIds : ExecInvoke(c) /\ UNCHANGED <<tool, suggest, store>>
    \/ \E c \in CallIds : ActivityReturn(c) /\ UNCHANGED <<tool, suggest, store>>
    \/ \E c \in CallIds : RunSetMemory(c) /\ UNCHANGED <<tool, suggest, store>>
    \/ \E c \in CallIds : StepReturned(c) /\ UNCHANGED <<tool, suggest, store>>
    \/ \E c \in CallIds : StepRespond(c) /\ UNCHANGED <<tool, suggest, store>>
    \/ \E c \in CallIds : FailOnFailure(c) /\ UNCHANGED <<tool, suggest, store>>
    \/ \E c \in CallIds : FailOnComplete(c) /\ UNCHANGED <<tool, suggest, store>>
    \/ \E c \in CallIds : FailRespond(c) /\ UNCHANGED <<tool, suggest, store>>
    \/ \E c \in CallIds : CompleteLoaded(c) /\ UNCHANGED <<tool, suggest, store>>
    \/ \E c \in CallIds : CompleteOnSuccess(c) /\ UNCHANGED <<tool, suggest, store>>
    \/ \E c \in CallIds : CompleteOnComplete(c) /\ UNCHANGED <<tool, suggest, store>>
    \/ \E c \in CallIds : CompleteRespond(c) /\ UNCHANGED <<tool, suggest, store>>
    \/ \E c \in CallIds : CancelLoaded(c) /\ UNCHANGED <<tool, suggest, store>>
    \/ \E c \in CallIds : CancelOnComplete(c) /\ UNCHANGED <<tool, suggest, store>>
    \/ MayCall /\ \E sessionId \in SessionIds : PauseCall(sessionId) /\ UNCHANGED <<tool, suggest, store>>
    \/ \E c \in CallIds : PauseLoaded(c) /\ UNCHANGED <<tool, suggest, store>>

SpecPause == InitPause /\ [][NextPause]_vars

\* One call of buildToolCallSuggestions, on any result and step.
SeqsUpTo(S, n) == UNION {[1..k -> S] : k \in 0..n}
Priorities == {0, ContinuePriority, BranchPriority, 150}
OwnSuggestions ==
    {Suggestion(t, p, "own", NoParameters) : t \in {ContinueTool, "other_tool"},
                                            p \in Priorities}
BranchConfigs == [when : Whens, call : {"ok_tool", "err_tool", ContinueTool}]
Memories == {EmptyMemory, [k \in {WorkflowInputKey} |-> 1]}

BuildSuggestions ==
    /\ suggest.pc = "idle"
    /\ \E isLastStep \in BOOLEAN, branches \in SeqsUpTo(BranchConfigs, MaxBranches),
          data \in 0..2, own \in SeqsUpTo(OwnSuggestions, MaxOwn),
          stepInput \in 0..1, memory \in Memories :
          suggest' = [pc |-> "done", isLastStep |-> isLastStep, branches |-> branches,
                      data |-> data, own |-> own, stepInput |-> stepInput,
                      memory |-> memory,
                      out |-> buildToolCallSuggestions(isLastStep, branches, data, own,
                                                       1, stepInput, memory)]
    /\ UNCHANGED <<OrchestratorVars, tool, store>>

InitSuggestions == InitActivity
NextSuggestions == BuildSuggestions
SpecSuggestions == InitSuggestions /\ [][NextSuggestions]_vars

\* ----------------------------------------- a WorkflowStore that can fail
\* The manager's store is pluggable (`options?.store`): a WorkflowStore other
\* than the in-memory one can reject an operation for a session it holds.
\* StoreError is the message of the error it raises.
StoreError == "store unavailable"

\* executeStep: `updateSession(sessionId, {currentStep})` raises.  The await
\* is before the try, so the call rejects with the store's error.
UpdateFails(c) ==
    /\ At(c, "exec_loaded")
    /\ calls[c].session.sessionId # 0
    /\ calls[c].stepIndex + 1 \in DOMAIN config
    /\ SetCall(c, Finish([calls[c] EXCEPT !.thrown = "store"], Raise(StoreError)))
    /\ UNCHANGED <<config, manager, sessions, lastSessionId, nextId, clock, callbacks>>

\* runActivityForStep: the activity returned and recordStepExecution raises.
\* The await is inside the try of executeStep: its catch hands the message
\* to handleFailedStep, which fails the workflow.
RecordFails(c) ==
    /\ At(c, "activity")
    /\ calls[c].sid \in DOMAIN sessions
    /\ EnterFailWorkflow(c, [calls[c] EXCEPT !.thrown = "store"], StoreError)
    /\ UNCHANGED <<config, manager, lastSessionId, nextId, callbacks>>

\* runActivityForStep: the step is recorded and setMemory raises, inside the
\* same try.
SetMemoryFails(c) ==
    /\ At(c, "run_recorded")
    /\ calls[c].sid \in DOMAIN sessions
    /\ EnterFailWorkflow(c, [calls[c] EXCEPT !.thrown = "store"], StoreError)
    /\ UNCHANGED <<config, manager, lastSessionId, nextId, callbacks>>

InitFaults == Init /\ config \in RequiredOnly

NextFaults ==
    \/ MayCall /\ \E input \in Inputs : StartCall(input) /\ UNCHANGED <<tool, suggest, store>>
    \/ MayCall /\ ContinueCall /\ UNCHANGED <<tool, suggest, store>>
    \/ MayCall /\ \E sessionId \in SessionIds : CancelCall(sessionId) /\ UNCHANGED <<tool, suggest, store>>
    \/ \E c \in CallIds : CreateSession(c) /\ UNCHANGED <<tool, suggest, store>>
    \/ \E c \in CallIds : StartCreated(c) /\ UNCHANGED <<tool, suggest, store>>
    \/ \E c \in CallIds : StartSetRunning(c) /\ UNCHANGED <<tool, suggest, store>>
    \/ \E c \in CallIds : ContinueLoaded(c) /\ UNCHANGED <<tool, suggest, store>>
    \/ \E c \in CallIds : ExecLoaded(c) /\ UNCHANGED <<tool, suggest, store>>
    \/ \E c \in CallIds : ExecSkip(c) /\ UNCHANGED <<tool, suggest, store>>
    \/ \E c \in CallIds : ExecConditionRaise(c) /\ UNCHANGED <<tool, suggest, store>>
    \/ \E c \in CallIds : ExecInvoke(c) /\ UNCHANGED <<tool, suggest, store>>
    \/ \E c \in CallIds : ActivityReturn(c) /\ UNCHANGED <<tool, suggest, store>>
    \/ \E c \in CallIds : RunSetMemory(c) /\ UNCHANGED <<tool, suggest, store>>
    \/ \E c \in CallIds : StepReturned(c) /\ UNCHANGED <<tool, suggest, store>>
    \/ \E c \in CallIds : StepRespond(c) /\ UNCHANGED <<tool, suggest, store>>
    \/ \E c \in CallIds : FailOnFailure(c) /\ UNCHANGED <<tool, suggest, store>>
    \/ \E c \in CallIds : FailOnComplete(c) /\ UNCHANGED <<tool, suggest, store>>
    \/ \E c \in CallIds : FailRespond(c) /\ UNCHANGED <<tool, suggest, store>>
    \/ \E c \in CallIds : CompleteLoaded(c) /\ UNCHANGED <<tool, suggest, store>>
    \/ \E c \in CallIds : CompleteOnSuccess(c) /\ UNCHANGED <<tool, suggest, store>>
    \/ \E c \in CallIds : CompleteOnComplete(c) /\ UNCHANGED <<tool, suggest, store>>
    \/ \E c \in CallIds : CompleteRespond(c) /\ UNCHANGED <<tool, suggest, store>>
    \/ \E c \in CallIds : CancelLoaded(c) /\ UNCHANGED <<tool, suggest, store>>
    \/ \E c \in CallIds : CancelOnComplete(c) /\ UNCHANGED <<tool, suggest, store>>
    \/ \E c \in CallIds : UpdateFails(c) /\ UNCHANGED <<tool, suggest, store>>
    \/ \E c \in CallIds : RecordFails(c) /\ UNCHANGED <<tool, suggest, store>>
    \/ \E c \in CallIds : SetMemoryFails(c) /\ UNCHANGED <<tool, suggest, store>>

SpecFaults == InitFaults /\ [][NextFaults]_vars

\* ------------------- a WorkflowSessionManager shared with another workflow
\* A second McpWorkflow, named OtherName, is built on the same manager, whose
\* maxSessions is small.  Of that workflow the model has what reaches the
\* sessions of this one: the sessions it creates and its cancel.
OtherName == "other"
Limits == 1..MaxLimit

\* createSession that inserts without the cleanup at the limit.
OtherCreateSession_NoCleanup ==
    /\ nextId < MaxCreated
    /\ LET sid == nextId + 1
       IN  /\ sessions' = (sid :> [NewSession(sid, Len(config), clock)
                                       EXCEPT !.workflowName = OtherName]) @@ sessions
           /\ callbacks' = (sid :> <<>>) @@ callbacks
           /\ nextId' = sid
           /\ clock' = clock + 1
    /\ UNCHANGED <<config, manager, lastSessionId, calls>>

\* WorkflowSessionManager.createSession(OtherName, totalSteps), awaited to
\* its end: cleanup when the store is at the limit, then the new session.
OtherCreateSession ==
    /\ nextId < MaxCreated
    /\ LET sid == nextId + 1
           kept == IF StoreGetStats(sessions).total >= manager.maxSessions
                   THEN ManagerCleanup(sessions, clock) ELSE sessions
       IN  /\ sessions' = (sid :> [NewSession(sid, Len(config), clock)
                                       EXCEPT !.workflowName = OtherName]) @@ kept
           /\ callbacks' = (sid :> <<>>) @@ callbacks
           /\ nextId' = sid
           /\ clock' = clock + 1
    /\ UNCHANGED <<config, manager, lastSessionId, calls>>

\* cancel(sessionId) called on the other workflow: the same method, up to
\* its first await.
OtherCancelCall(sessionId) ==
    /\ calls' = Append(calls,
          [NewCall("cancel", sessionId) EXCEPT
              !.workflow = OtherName,
              !.owner = sessionId, !.sid = sessionId, !.session = StoreGetSession(sessionId),
              !.pc = "cancel_loaded"])
    /\ UNCHANGED <<config, manager, sessions, lastSessionId, nextId, clock, callbacks>>

\* This specification explores the workflows of MaxSteps unconditional
\* required steps.
Unconditional ==
    {s \in RequiredOnly : Len(s) = MaxSteps /\ \A i \in DOMAIN s : s[i].condition = "none"}

InitShared ==
    /\ \E n \in Limits : InitWith([maxSessions |-> n, sessionTTLMs |-> 0])
    /\ config \in Unconditional

NextShared ==
    \/ MayCall /\ \E input \in Inputs : StartCall(input) /\ UNCHANGED <<tool, suggest, store>>
    \/ MayCall /\ ContinueCall /\ UNCHANGED <<tool, suggest, store>>
    \/ MayCall /\ \E sessionId \in SessionIds : CancelCall(sessionId) /\ UNCHANGED <<tool, suggest, store>>
    \/ \E c \in CallIds : CreateSession(c) /\ UNCHANGED <<tool, suggest, store>>
    \/ \E c \in CallIds : StartCreated(c) /\ UNCHANGED <<tool, suggest, store>>
    \/ \E c \in CallIds : StartSetRunning(c) /\ UNCHANGED <<tool, suggest, store>>
    \/ \E c \in CallIds : ContinueLoaded(c) /\ UNCHANGED <<tool, suggest, store>>
    \/ \E c \in CallIds : ExecLoaded(c) /\ UNCHANGED <<tool, suggest, store>>
    \/ \E c \in CallIds : ExecInvoke(c) /\ UNCHANGED <<tool, suggest, store>>
    \/ \E c \in CallIds : ActivityReturn(c) /\ UNCHANGED <<tool, suggest, store>>
    \/ \E c \in CallIds : RunSetMemory(c) /\ UNCHANGED <<tool, suggest, store>>
    \/ \E c \in CallIds : StepReturned(c) /\ UNCHANGED <<tool, suggest, store>>
    \/ \E c \in CallIds : StepRespond(c) /\ UNCHANGED <<tool, suggest, store>>
    \/ \E c \in CallIds : FailOnFailure(c) /\ UNCHANGED <<tool, suggest, store>>
    \/ \E c \in CallIds : FailOnComplete(c) /\ UNCHANGED <<tool, suggest, store>>
    \/ \E c \in CallIds : FailRespond(c) /\ UNCHANGED <<tool, suggest, store>>
    \/ \E c \in CallIds : CompleteLoaded(c) /\ UNCHANGED <<tool, suggest, store>>
    \/ \E c \in CallIds : CompleteOnSuccess(c) /\ UNCHANGED <<tool, suggest, store>>
    \/ \E c \in CallIds : CompleteOnComplete(c) /\ UNCHANGED <<tool, suggest, store>>
    \/ \E c \in CallIds : CompleteRespond(c) /\ UNCHANGED <<tool, suggest, store>>
    \/ \E c \in CallIds : CancelLoaded(c) /\ UNCHANGED <<tool, suggest, store>>
    \/ \E c \in CallIds : CancelOnComplete(c) /\ UNCHANGED <<tool, suggest, store>>
    \/ MayCall /\ OtherCreateSession /\ UNCHANGED <<tool, suggest, store>>
    \/ MayCall /\ \E sessionId \in SessionIds : OtherCancelCall(sessionId) /\ UNCHANGED <<tool, suggest, store>>

SpecShared == InitShared /\ [][NextShared]_vars

\* ------------------------------------------ calls that are always resumed
\* The workflows whose conditions return: none of them raises.
Returning == {s \in Workflows : \A i \in DOMAIN s : ~ConditionRaises(s[i].condition)}

InitLive == Init /\ config \in Returning

NextLive ==
    \/ MayCall /\ \E input \in Inputs : StartCall(input) /\ UNCHANGED <<tool, suggest, store>>
    \/ MayCall /\ ContinueCall /\ UNCHANGED <<tool, suggest, store>>
    \/ MayCall /\ \E sessionId \in SessionIds : CancelCall(sessionId) /\ UNCHANGED <<tool, suggest, store>>
    \/ \E c \in CallIds : CreateSession(c) /\ UNCHANGED <<tool, suggest, store>>
    \/ \E c \in CallIds : StartCreated(c) /\ UNCHANGED <<tool, suggest, store>>
    \/ \E c \in CallIds : StartSetRunning(c) /\ UNCHANGED <<tool, suggest, store>>
    \/ \E c \in CallIds : ContinueLoaded(c) /\ UNCHANGED <<tool, suggest, store>>
    \/ \E c \in CallIds : ExecLoaded(c) /\ UNCHANGED <<tool, suggest, store>>
    \/ \E c \in CallIds : ExecSkip(c) /\ UNCHANGED <<tool, suggest, store>>
    \/ \E c \in CallIds : ExecInvoke(c) /\ UNCHANGED <<tool, suggest, store>>
    \/ \E c \in CallIds : ActivityReturn(c) /\ UNCHANGED <<tool, suggest, store>>
    \/ \E c \in CallIds : RunSetMemory(c) /\ UNCHANGED <<tool, suggest, store>>
    \/ \E c \in CallIds : StepReturned(c) /\ UNCHANGED <<tool, suggest, store>>
    \/ \E c \in CallIds : StepRespond(c) /\ UNCHANGED <<tool, suggest, store>>
    \/ \E c \in CallIds : FailOnFailure(c) /\ UNCHANGED <<tool, suggest, store>>
    \/ \E c \in CallIds : FailOnComplete(c) /\ UNCHANGED <<tool, suggest, store>>
    \/ \E c \in CallIds : FailRespond(c) /\ UNCHANGED <<tool, suggest, store>>
    \/ \E c \in CallIds : CompleteLoaded(c) /\ UNCHANGED <<tool, suggest, store>>
    \/ \E c \in CallIds : CompleteOnSuccess(c) /\ UNCHANGED <<tool, suggest, store>>
    \/ \E c \in CallIds : CompleteOnComplete(c) /\ UNCHANGED <<tool, suggest, store>>
    \/ \E c \in CallIds : CompleteRespond(c) /\ UNCHANGED <<tool, suggest, store>>
    \/ \E c \in CallIds : CancelLoaded(c) /\ UNCHANGED <<tool, suggest, store>>
    \/ \E c \in CallIds : CancelOnComplete(c) /\ UNCHANGED <<tool, suggest, store>>

\* A call suspended at an await goes on once the awaited promise settles:
\* the one step of the call in flight.
Resume ==
    /\ \E c \in CallIds :
          \/ CreateSession(c)
          \/ StartCreated(c)
          \/ StartSetRunning(c)
          \/ ContinueLoaded(c)
          \/ ExecLoaded(c)
          \/ ExecSkip(c)
          \/ ExecInvoke(c)
          \/ ActivityReturn(c)
          \/ RunSetMemory(c)
          \/ StepReturned(c)
          \/ StepRespond(c)
          \/ FailOnFailure(c)
          \/ FailOnComplete(c)
          \/ FailRespond(c)
          \/ CompleteLoaded(c)
          \/ CompleteOnSuccess(c)
          \/ CompleteOnComplete(c)
          \/ CompleteRespond(c)
          \/ CancelLoaded(c)
          \/ CancelOnComplete(c)
    /\ UNCHANGED <<tool, suggest, store>>

\* Every activity and callback settles and the event loop resumes the call.
SpecLive == InitLive /\ [][NextLive]_vars /\ WF_vars(Resume)

\* ----------------------------------- continue() calls in flight together
\* One session is started and its start() awaited; then continue() is called
\* up to MaxRacing times without awaiting the call before.  The workflows
\* are those of MaxSteps unconditional required steps.
InitRace == Init /\ config \in Unconditional

Started == Len(calls) >= 1 /\ calls[1].pc = "done"

NextRace ==
    \/ Len(calls) = 0 /\ \E input \in Inputs : StartCall(input) /\ UNCHANGED <<tool, suggest, store>>
    \/ Started /\ Len(calls) < 1 + MaxRacing /\ ContinueCall /\ UNCHANGED <<tool, suggest, store>>
    \/ \E c \in CallIds : CreateSession(c) /\ UNCHANGED <<tool, suggest, store>>
    \/ \E c \in CallIds : StartCreated(c) /\ UNCHANGED <<tool, suggest, store>>
    \/ \E c \in CallIds : StartSetRunning(c) /\ UNCHANGED <<tool, suggest, store>>
    \/ \E c \in CallIds : ContinueLoaded(c) /\ UNCHANGED <<tool, suggest, store>>
    \/ \E c \in CallIds : ExecLoaded(c) /\ UNCHANGED <<tool, suggest, store>>
    \/ \E c \in CallIds : ExecInvoke(c) /\ UNCHANGED <<tool, suggest, store>>
    \/ \E c \in CallIds : ActivityReturn(c) /\ UNCHANGED <<tool, suggest, store>>
    \/ \E c \in CallIds : RunSetMemory(c) /\ UNCHANGED <<tool, suggest, store>>
    \/ \E c \in CallIds : StepReturned(c) /\ UNCHANGED <<tool, suggest, store>>
    \/ \E c \in CallIds : StepRespond(c) /\ UNCHANGED <<tool, suggest, store>>
    \/ \E c \in CallIds : FailOnFailure(c) /\ UNCHANGED <<tool, suggest, store>>
    \/ \E c \in CallIds : FailOnComplete(c) /\ UNCHANGED <<tool, suggest, store>>
    \/ \E c \in CallIds : FailRespond(c) /\ UNCHANGED <<tool, suggest, store>>
    \/ \E c \in CallIds : CompleteLoaded(c) /\ UNCHANGED <<tool, suggest, store>>
    \/ \E c \in CallIds : CompleteOnSuccess(c) /\ UNCHANGED <<tool, suggest, store>>
    \/ \E c \in CallIds : CompleteOnComplete(c) /\ UNCHANGED <<tool, suggest, store>>
    \/ \E c \in CallIds : CompleteRespond(c) /\ UNCHANGED <<tool, suggest, store>>

SpecRace == InitRace /\ [][NextRace]_vars

\* ================================================================ claims
Terminal(status) == status \in TerminalStatuses
NonEmpty(error) == error \notin {Undefined, ""}
Moves(c) == calls'[c] # calls[c]
CannotContinue(status) == Raise("Cannot continue workflow in status: " \o status)

\* The call ran a step whose activity returned a result with success = false.
StepFailed(call) ==
    call.executed > 0 /\ ~call.result.raised /\ ~call.result.success
RequiredFailure(call) == StepFailed(call) /\ ~Step(call.stepIndex).optional
OptionalFailure(call) == StepFailed(call) /\ Step(call.stepIndex).optional

\* C1: continue() on a session whose persisted status is not `running`
\* raises "Cannot continue workflow in status: <status>", leaves the stored
\* sessions (status, currentStep, memory, history) as they are, fires no
\* callback and invokes no activity.
C1_ContinueRejectsNotRunning ==
    [][\A c \in CallIds :
         (/\ calls[c].pc = "cont_loaded"
          /\ calls[c].sid \in DOMAIN sessions
          /\ sessions[calls[c].sid].status # RUNNING
          /\ Moves(c))
         => /\ calls'[c].pc = "done"
            /\ calls'[c].ret = CannotContinue(sessions[calls[c].sid].status)
            /\ calls'[c].executed = calls[c].executed
            /\ calls[c].op = "continue" => calls'[c].executed = 0
            /\ sessions' = sessions
            /\ callbacks' = callbacks]_vars

C1_Witness ==
    \E c \in CallIds :
        /\ calls[c].op = "continue" /\ calls[c].pc = "done"
        /\ calls[c].ret = CannotContinue(FAILED)
        /\ sessions[calls[c].sid].status = FAILED

\* C2: after cancel(sessionId) has returned, every later continue() on that
\* session raises "Cannot continue workflow in status: cancelled" and
\* executes no step.
CancelledBefore(c) ==
    \E k \in CallIds :
        /\ k < c
        /\ calls[k].op = "cancel" /\ calls[k].pc = "done"
        /\ calls[k].ret.kind = "response"
        /\ calls[k].arg = calls[c].sid

C2_CancelIsTerminal ==
    \A c \in CallIds :
        (calls[c].op = "continue" /\ CancelledBefore(c))
        => /\ calls[c].pc \in {"cont_loaded", "done"}
           /\ calls[c].executed = 0
           /\ calls[c].pc = "done" => calls[c].ret = CannotContinue(CANCELLED)

C2_Witness ==
    \E c \in CallIds :
        calls[c].op = "continue" /\ CancelledBefore(c) /\ calls[c].pc = "done"

\* C3: once the status of a session is terminal (completed, failed,
\* cancelled), no call changes its status, completedAt or error again.
C3_TerminalOnce ==
    [][\A s \in DOMAIN sessions :
         Terminal(sessions[s].status)
         => /\ s \in DOMAIN sessions'
            /\ sessions'[s].status = sessions[s].status
            /\ sessions'[s].completedAt = sessions[s].completedAt
            /\ sessions'[s].error = sessions[s].error]_vars

\* C4: when a step that is not optional returns success = false, the same
\* start/continue call leaves the session `failed` with a non-empty error
\* (also when the activity gave no error message) and answers with isError.
C4_RequiredFailureFails ==
    \A c \in CallIds :
        RequiredFailure(calls[c])
        => /\ calls[c].pc \in {"run_recorded", "run_returned", "fail_onFailure",
                               "fail_onComplete", "fail_respond", "done"}
           /\ calls[c].pc \in {"fail_onFailure", "fail_onComplete", "fail_respond"}
              => /\ sessions[calls[c].sid].status = FAILED
                 /\ NonEmpty(sessions[calls[c].sid].error)
           /\ calls[c].pc = "done"
              => /\ calls[c].ret.kind = "response" /\ calls[c].ret.isError
                 /\ calls[c].ret.session.status = FAILED
                 /\ NonEmpty(calls[c].ret.session.error)

C4_Witness ==
    \E c \in CallIds :
        /\ RequiredFailure(calls[c]) /\ calls[c].pc = "done"
        /\ calls[c].result.error = Undefined
        /\ calls[c].ret.session.error = "Activity failed without error message"

\* C5 as stated: an optional step failing never changes the status away
\* from `running`, whatever the position of the step.
C5_OptionalFailureKeepsRunning ==
    \A c \in CallIds :
        (OptionalFailure(calls[c]) /\ calls[c].pc = "done")
        => calls[c].ret.session.status = RUNNING

\* C5 amended: an optional step whose activity returns success = false never
\* makes the workflow `failed`: the call answers without isError, no error is
\* stored, the failure is the last history entry (success = false), and the
\* status is `running` after a step that is not the last and `completed`
\* after the last step.
LastEntry(session) == session.history[Len(session.history)]

C5_OptionalFailureNeverFails ==
    \A c \in CallIds :
        OptionalFailure(calls[c])
        => /\ calls[c].pc \notin {"fail_onFailure", "fail_onComplete", "fail_respond"}
           /\ calls[c].pc = "done"
              => /\ calls[c].ret.kind = "response" /\ ~calls[c].ret.isError
                 /\ calls[c].ret.session.status =
                       IF IsLastStep(calls[c].stepIndex) THEN COMPLETED ELSE RUNNING
                 /\ calls[c].ret.session.error = Undefined
                 /\ Len(calls[c].ret.session.history) > 0
                 /\ LastEntry(calls[c].ret.session).stepIndex = calls[c].stepIndex
                 /\ ~LastEntry(calls[c].ret.session).success

C5_Witness ==
    \E c \in CallIds :
        /\ OptionalFailure(calls[c]) /\ calls[c].pc = "done"
        /\ ~IsLastStep(calls[c].stepIndex)
        /\ calls[c].ret.session.status = RUNNING

\* C6: with at most one call in flight per session, the history of a session
\* is never longer than totalSteps and its stepIndex values never decrease.
C6_HistoryBounded ==
    \A s \in DOMAIN sessions :
        /\ Len(sessions[s].history) <= sessions[s].totalSteps
        /\ \A i \in 1..(Len(sessions[s].history) - 1) :
              sessions[s].history[i].stepIndex <= sessions[s].history[i + 1].stepIndex

StepInFlight(c) == calls[c].executed > 0 /\ calls[c].pc # "done"

C8_CancelledResultIgnored ==
    [][\A c \in CallIds :
         (/\ StepInFlight(c)
          /\ calls[c].sid \in DOMAIN sessions
          /\ sessions[calls[c].sid].status = CANCELLED)
         => /\ sessions'[calls[c].sid].status = CANCELLED
            /\ \A i \in DOMAIN callbacks'[calls[c].sid] :
                  i > Len(callbacks[calls[c].sid])
                  => callbacks'[calls[c].sid][i].name \notin {"onSuccess", "onFailure"}]_vars

\* C9: a call made for session A changes no other session: when such a call
\* takes a step, every stored session but A is left as it is (currentStep,
\* status, memory, history).
C9_SessionsIndependent ==
    [][\A c \in CallIds :
         (Moves(c) /\ calls[c].owner # 0)
         => \A s \in DOMAIN sessions \ {calls[c].owner} :
               s \in DOMAIN sessions' /\ sessions'[s] = sessions[s]]_vars

\* C10: a step whose condition is false against the memory is skipped:
\* currentStep is the skipped index, the activity is not invoked, nothing is
\* written to the store (no history entry, no memory key), and the call goes
\* on to the next index, or to the completion after the last step.
Skipping(c) ==
    /\ calls[c].pc = "exec_cond"
    /\ shouldSkipStep(Step(calls[c].stepIndex), calls[c].session)

AfterSkip(c) == calls[c].pc = "cont_loaded" /\ calls[c].skipped > 0

C10_SkippedStep ==
    [][\A c \in CallIds :
         /\ (Skipping(c) /\ Moves(c))
            => /\ sessions[calls[c].sid].currentStep = calls[c].stepIndex
               /\ sessions' = sessions
               /\ calls'[c].executed = calls[c].executed
               /\ calls'[c].sid = calls[c].sid
               /\ AfterSkip(c)'
               /\ calls'[c].session = sessions[calls[c].sid]
         /\ (AfterSkip(c) /\ Moves(c))
            => /\ sessions' = sessions
               /\ calls'[c].executed = calls[c].executed
               /\ IF IsLastStep(calls[c].stepIndex)
                  THEN calls'[c].pc = "complete_loaded"
                  ELSE /\ calls'[c].pc = "exec_loaded"
                       /\ calls'[c].stepIndex = calls[c].stepIndex + 1]_vars

\* A start that skipped step 0 and has the activity of step 1 in flight, with
\* nothing recorded for step 0.
C10_Witness ==
    \E c \in CallIds :
        /\ calls[c].op = "start" /\ calls[c].pc = "activity"
        /\ calls[c].stepIndex = 1 /\ calls[c].executed = 1
        /\ sessions[calls[c].sid].history = <<>>
        /\ ActivityName(0) \notin DOMAIN sessions[calls[c].sid].memory

\* C11: an error raised by user code during a step (the condition, the
\* activity invocation) is caught by executeStep: the start/continue call
\* does not raise, it answers with isError and the session is `failed` with
\* the error recorded.
C11_RaisedErrorsCaught ==
    \A c \in CallIds :
        (calls[c].thrown # "" /\ calls[c].pc = "done")
        => /\ calls[c].ret.kind = "response" /\ calls[c].ret.isError
           /\ calls[c].ret.session.status = FAILED
           /\ NonEmpty(calls[c].ret.session.error)

\* C12: in a workflow without conditions whose activities all succeeded, a
\* completed session has one history entry per step, in step order, and its
\* memory maps each activity name to that activity's output, where step 0 ran
\* on the start input and step k+1 on the recorded output of step k.
RECURSIVE OutputOfStep(_, _)
OutputOfStep(k, input) ==
    IF k = 0 THEN RunData(input) ELSE RunData(OutputOfStep(k - 1, input))

StartInput(session) ==
    IF WorkflowInputKey \in DOMAIN session.memory
    THEN session.memory[WorkflowInputKey] ELSE 0

AllSucceeded(session) ==
    \A i \in DOMAIN session.history : session.history[i].success

NoConditions == \A i \in DOMAIN config : config[i].condition = "none"

Callback(name, status) == [name |-> name, status |-> status]
Invoked(s, name) == \E i \in DOMAIN callbacks[s] : callbacks[s][i].name = name
LastTwo(seq) == SubSeq(seq, Len(seq) - 1, Len(seq))

C13_CallbackOrderStep ==
    \A s \in DOMAIN callbacks :
        (s \in DOMAIN callbacks' /\ callbacks'[s] # callbacks[s])
        => LET e == callbacks'[s][Len(callbacks'[s])]
               before == callbacks[s]
           IN  /\ callbacks'[s] = Append(before, e)
               /\ e.name = "onSuccess"
                  => e.status = COMPLETED /\ sessions[s].status = COMPLETED
               /\ e.name = "onFailure"
                  => /\ e.status = FAILED /\ sessions[s].status = FAILED
                     /\ NonEmpty(sessions[s].error)
               /\ (e.name = "onComplete" /\ e.status = COMPLETED)
                  => /\ Len(before) > 0
                     /\ before[Len(before)] = Callback("onSuccess", COMPLETED)
               /\ (e.name = "onComplete" /\ e.status = FAILED)
                  => /\ Len(before) > 0
                     /\ before[Len(before)] = Callback("onFailure", FAILED)

C13_CallbackOrderState ==
    /\ \A s \in DOMAIN sessions :
          /\ sessions[s].status = FAILED => ~Invoked(s, "onSuccess")
          /\ sessions[s].status = COMPLETED => ~Invoked(s, "onFailure")
    /\ \A c \in CallIds :
          /\ calls[c].pc = "complete_respond"
             => LastTwo(callbacks[calls[c].sid]) =
                   <<Callback("onSuccess", COMPLETED), Callback("onComplete", COMPLETED)>>
          /\ calls[c].pc = "fail_respond"
             => LastTwo(callbacks[calls[c].sid]) =
                   <<Callback("onFailure", FAILED), Callback("onComplete", FAILED)>>

OnCompleteCount(s) ==
    Cardinality({i \in DOMAIN callbacks[s] : callbacks[s][i].name = "onComplete"})

C14_CancelOnCompleteOnce ==
    /\ \A c \in CallIds :
          (calls[c].op = "cancel" /\ calls[c].pc = "done" /\ calls[c].ret.kind = "response")
          => /\ sessions[calls[c].arg].status = CANCELLED
             /\ \E i \in DOMAIN callbacks[calls[c].arg] :
                   callbacks[calls[c].arg][i] = Callback("onComplete", CANCELLED)
    /\ \A s \in DOMAIN callbacks :
          /\ \A i \in DOMAIN callbacks[s] :
                callbacks[s][i].status = CANCELLED => callbacks[s][i].name = "onComplete"
          /\ OnCompleteCount(s) <= 1

\* C15: execute never raises: however it ends (validation, run, timeout or
\* a lifecycle hook raising), it returns a result, and a failure is a result
\* with success = false and an error message.
ExecuteEnded == tool.executes > 0 /\ tool.pc \in {"done", "backoff"}

C15_ExecuteNeverRaises ==
    ExecuteEnded
    => /\ ~tool.outcome.raised
       /\ (~tool.outcome.success /\ tool.ran.success # "false")
          => NonEmpty(tool.outcome.error)

\* C16: in every call of execute exactly one of onSuccess/onFailure is
\* invoked, once, chosen by the final success, and then onComplete once:
\* the hooks invoked are <<onSuccess, onComplete>> for a success and
\* <<onFailure, onComplete>> otherwise, on every path.
FinalSuccess == tool.result.success

C16_HooksExactlyOnce ==
    ExecuteEnded
    => tool.hooks = <<IF FinalSuccess THEN "onSuccess" ELSE "onFailure", "onComplete">>

\* C17: with an input schema and a context.input that does not satisfy it,
\* run is never invoked and execute returns a failure result; with an output
\* schema and a non-empty result.data that does not satisfy it, a result that
\* run reported as successful is returned with success = false.
ReturnedSuccess == ~tool.outcome.raised /\ tool.outcome.success
ReturnedFailure == ~tool.outcome.raised /\ ~tool.outcome.success

C17_ValidationShortCircuits ==
    /\ (tool.executes > 0 /\ tool.cfg.inputSchema /\ ~Satisfies(tool.input))
       => /\ tool.runs = 0
          /\ ExecuteEnded => ReturnedFailure
    /\ (/\ ExecuteEnded /\ tool.cfg.outputSchema
        /\ tool.ran.kind = "return" /\ tool.ran.success # "false"
        /\ tool.ran.data # 0 /\ ~Satisfies(tool.ran.data))
       => ReturnedFailure

\* C18: when the timer fires before run completes, execute returns
\* success = false with the error "Activity timed out after <ms>ms", and the
\* run's later result changes nothing and triggers no onSuccess.
C18_TimeoutAbandonsRun ==
    (ExecuteEnded /\ tool.timedOut)
    => /\ tool.outcome = Failure(TimeoutError(tool.cfg.timeout))
       /\ \A i \in DOMAIN tool.hooks : tool.hooks[i] # "onSuccess"

\* C19 as stated: with a retry policy of n attempts, once run has succeeded
\* after k failures it was invoked k + 1 times and the success is returned;
\* when every attempt failed run was invoked exactly n times and the failure
\* message embeds n and the last error.
Retrying == tool.op = "executeWithRetry" /\ tool.cfg.maxAttempts > 0
RetryDone == Retrying /\ tool.pc = "done"

C19_RunInvocations ==
    RetryDone
    => /\ tool.runSuccesses > 0
          => /\ ~tool.ret.raised /\ tool.ret.success
             /\ tool.runs = tool.attempt + 1
       /\ tool.runSuccesses = 0
          => /\ tool.runs = tool.cfg.maxAttempts
             /\ tool.ret = Failure(RetryError(tool.cfg.maxAttempts, tool.lastError))

\* C19 amended: the attempts are invocations of execute.  After k < n failed
\* attempts (a failure result or a raise) and a successful one, execute was
\* invoked k + 1 times and that success result is returned; after n failed
\* attempts execute was invoked exactly n times and the single failure
\* result "Activity failed after n attempts: <last error>" is returned.  run
\* is invoked once per attempt, and not at all when the input fails
\* validation.
LastUnderlyingError ==
    IF tool.outcome.raised \/ NonEmpty(tool.outcome.error)
    THEN tool.outcome.error ELSE "Activity failed"

C19_RetryAttempts ==
    Retrying
    => /\ tool.executes <= tool.cfg.maxAttempts
       /\ tool.runs = IF validateInput(tool.cfg, tool.input) THEN tool.executes ELSE 0
       /\ tool.pc = "done"
          => /\ ~tool.ret.raised
             /\ tool.ret.success
                => /\ tool.attempt < tool.cfg.maxAttempts
                   /\ tool.executes = tool.attempt + 1
                   /\ tool.ret = tool.outcome
             /\ ~tool.ret.success
                => /\ tool.attempt = tool.cfg.maxAttempts
                   /\ tool.executes = tool.cfg.maxAttempts
                   /\ tool.ret = Failure(RetryError(tool.cfg.maxAttempts,
                                                    LastUnderlyingError))

\* maxAttempts = 3, two failed attempts, then a success: three runs.
C19_Witness ==
    /\ RetryDone /\ tool.cfg.maxAttempts = 3
    /\ tool.attempt = 2 /\ tool.ret.success
    /\ tool.executes = 3 /\ tool.runs = 3

\* C20: inside a workflow step a failed attempt of the activity is retried up
\* to the retry policy's maxAttempts before the step is judged failed or its
\* failure is swallowed as optional: a call that ends with a failed step has
\* invoked the activity maxAttempts times.
C20_StepFailureRetried ==
    \A c \in DOMAIN calls :
        (calls[c].pc = "done" /\ StepFailed(calls[c]))
        => calls[c].executed >= ActivityRetry(calls[c].stepIndex).maxAttempts

\* C21: for a step that is not the last the returned list is the result's
\* own suggestions, then one priority-100 suggestion per branch whose `when`
\* holds (all of them, in declaration order), then the default continue
\* suggestion at priority 50, ranked by descending priority with ties in
\* insertion order.  (Stated for the results none of whose suggestions
\* targets the continue tool already: there the default is not repeated.)
AtPriority(suggestions, p) ==
    LET Has(x) == x.priority = p IN SelectSeq(suggestions, Has)
Ranked(suggestions) ==
    AtPriority(suggestions, 150) \o AtPriority(suggestions, BranchPriority)
    \o AtPriority(suggestions, ContinuePriority) \o AtPriority(suggestions, 0)
Listed ==
    suggest.own \o MatchedBranches(suggest.branches, suggest.data, 1,
                                   suggest.stepInput, suggest.memory)
TargetsContinue(suggestions) ==
    \E i \in DOMAIN suggestions : suggestions[i].toolName = ContinueTool
DefaultContinue ==
    Suggestion(ContinueTool, ContinuePriority, "Continue to next step in workflow",
               NoParameters)

C21_SuggestionList ==
    (suggest.pc = "done" /\ ~suggest.isLastStep /\ ~TargetsContinue(Listed))
    => suggest.out = Ranked(Listed \o <<DefaultContinue>>)

\* C22: in a one-step workflow whose step declares the branches
\* [r => r.valid -> ok_tool, r => !r.valid -> err_tool], an activity result
\* {valid: false} gives, in the response to start, exactly one suggestion
\* targeting err_tool and none targeting ok_tool.
Targeting(suggestions, toolName) ==
    {i \in DOMAIN suggestions : suggestions[i].toolName = toolName}

C22_BranchingScenario ==
    \A c \in DOMAIN calls :
        (/\ Len(config) = 1
         /\ calls[c].op = "start" /\ calls[c].pc = "done"
         /\ calls[c].ret.kind = "response"
         /\ calls[c].executed = 1 /\ calls[c].result.success
         /\ calls[c].result.data # 0 /\ ~Valid(calls[c].result.data))
        => /\ Cardinality(Targeting(calls[c].ret.nextInstructions, "err_tool")) = 1
           /\ Targeting(calls[c].ret.nextInstructions, "ok_tool") = {}

\* C23: pause is valid only from running: there it sets the status to paused
\* and leaves currentStep and memory as they are; on a session in any other
\* status it is rejected and changes nothing.
Pausing(c) == c \in DOMAIN calls /\ calls[c].pc = "pause_loaded"

C23_PauseStep ==
    \A c \in DOMAIN calls :
        (Pausing(c) /\ calls'[c].pc = "done" /\ calls[c].sid \in DOMAIN sessions)
        => LET old == sessions[calls[c].sid]
               new == sessions'[calls[c].sid]
           IN  IF old.status = RUNNING
               THEN /\ calls'[c].ret.kind = "response"
                    /\ new.status = PAUSED
                    /\ new.currentStep = old.currentStep
                    /\ new.memory = old.memory
                    /\ new = [old EXCEPT !.status = PAUSED]
               ELSE /\ calls'[c].ret.kind = "raise"
                    /\ sessions' = sessions

C23_PauseOnlyFromRunning == [][C23_PauseStep]_vars

\* A running session with a step behind it has been paused.
C23_Witness ==
    \E c \in DOMAIN calls :
        /\ calls[c].op = "pause" /\ calls[c].pc = "done"
        /\ calls[c].ret.kind = "response"
        /\ calls[c].sid \in DOMAIN sessions
        /\ sessions[calls[c].sid].status = PAUSED
        /\ sessions[calls[c].sid].memory # EmptyMemory

\* C24: a paused workflow can be continued: after start and pause on a
\* two-step workflow, continue executes the next step and the session ends
\* completed with currentStep = 1.
C24_ContinuePaused ==
    \A c \in DOMAIN calls :
        (/\ calls[c].op = "continue" /\ calls[c].pc = "done"
         /\ c = 3 /\ calls[1].op = "start" /\ calls[2].op = "pause"
         /\ calls[1].ret.kind = "response" /\ ~calls[1].ret.isError
         /\ calls[2].ret.kind = "response"
         /\ Len(config) = 2)
        => /\ calls[c].ret.kind = "response"
           /\ ~calls[c].ret.isError
              => /\ calls[c].ret.session.status = COMPLETED
                 /\ calls[c].ret.session.currentStep = 1

\* The step is the store operation `op`.
StoreStep(op) == store'.ops = store.ops + 1 /\ store'.last.op = op

\* C25: createSession rejects when a session with the same sessionId exists,
\* and leaves the existing session as it is.
C25_CreateStep ==
    (StoreStep("createSession") /\ store'.last.existed)
    => /\ store'.last.raised
       /\ Stored(store') = Stored(store)

C25_CreateRejectsDuplicate == [][C25_CreateStep]_vars

\* C26: updateSession merges: a field absent from `partial` keeps its stored
\* value, a field present takes the given one, except sessionId and
\* workflowName, which never change; the other sessions are left alone; on
\* an unknown id it raises and leaves the store unchanged.
C26_UpdateStep ==
    StoreStep("updateSession")
    => LET id == store'.last.id
           partial == store'.last.partial
           old == Stored(store)
           new == Stored(store')
       IN  IF id \notin DOMAIN old
           THEN store'.last.raised /\ new = old
           ELSE /\ ~store'.last.raised
                /\ DOMAIN new = DOMAIN old
                /\ \A i \in DOMAIN old \ {id} : new[i] = old[i]
                /\ \A f \in DOMAIN old[id] :
                      new[id][f] =
                          IF f \notin DOMAIN partial \/ f \in {"sessionId", "workflowName"}
                          THEN old[id][f]
                          ELSE IF f = "memory" THEN [k \in {"u"} |-> 1]
                          ELSE partial[f]

C26_UpdateMerges == [][C26_UpdateStep]_vars

\* An update that tried to change sessionId and workflowName has been made.
C26_Witness ==
    /\ store.last.op = "updateSession" /\ store.last.existed
    /\ "sessionId" \in DOMAIN store.last.partial
    /\ Stored(store)[store.last.id].status = FAILED
    /\ Stored(store)[store.last.id].sessionId = store.last.id
    /\ Stored(store)[store.last.id].memory = [k \in {"a"} |-> 1]

\* C27: getSession and listSessions return copies: adding or removing memory
\* keys or history / branchHistory entries on a returned session object
\* changes nothing of what getSession, getMemory or listSessions return later.
C27_MutateCopyStep ==
    (StoreStep("mutate") /\ store'.last.from \in {"getSession", "listSessions"})
    => Stored(store') = Stored(store)

C27_ReturnedCopies == [][C27_MutateCopyStep]_vars

\* The client has changed the memory of a session it got from getSession: the
\* object it holds differs from the stored session.
C27_Witness ==
    /\ store.last.op = "mutate" /\ store.last.from = "getSession"
    /\ LET held == Deref(store, store.held[store.last.h].obj)
       IN  /\ held.sessionId \in DOMAIN store.at
           /\ held.memory # Stored(store)[held.sessionId].memory
           /\ Stored(store)[held.sessionId].memory = [k \in {"a"} |-> 1]

\* C28: createSession stores a copy: mutating the memory or history of the
\* session object passed to it, or of the object it returned, does not change
\* the stored session.
C28_MutateCreatedStep ==
    (StoreStep("mutate") /\ store'.last.from \in {"passed", "createSession"})
    => Stored(store') = Stored(store)

C28_CreateCopies == [][C28_MutateCreatedStep]_vars

\* C29: cleanup removes every session older than maxAge or whose status is in
\* `statuses`; then, if more than maxSessions remain, it evicts the oldest by
\* startedAt until exactly maxSessions remain; it returns the number of
\* sessions removed.
C29_CleanupStep ==
    StoreStep("cleanup")
    => LET options == store'.last.options
           old == Stored(store)
           after == DOMAIN Stored(store')
           matched == {i \in DOMAIN old :
                          \/ /\ "maxAge" \in DOMAIN options
                             /\ store.now - old[i].startedAt > options.maxAge
                          \/ /\ "statuses" \in DOMAIN options
                             /\ old[i].status \in options.statuses}
           rest == DOMAIN old \ matched
       IN  /\ after \subseteq rest
           /\ IF "maxSessions" \in DOMAIN options /\ Cardinality(rest) > options.maxSessions
              THEN /\ Cardinality(after) = options.maxSessions
                   /\ \A e \in rest \ after, k \in after :
                         old[e].startedAt <= old[k].startedAt
              ELSE after = rest
           /\ store'.last.count = Cardinality(DOMAIN old) - Cardinality(after)

C29_Cleanup == [][C29_CleanupStep]_vars

\* C30: session memory is append/overwrite only: over start, continue and
\* cancel the set of memory keys of a session never shrinks, and once
\* start(input) has returned the reserved key holds that input in every
\* later state of the session.
C30_KeysStep ==
    \A sid \in DOMAIN sessions :
        /\ sid \in DOMAIN sessions'
        /\ DOMAIN sessions[sid].memory \subseteq DOMAIN sessions'[sid].memory

C30_InputKept ==
    \A c \in DOMAIN calls :
        (calls[c].op = "start" /\ calls[c].pc = "done" /\ calls[c].owner # 0)
        => /\ calls[c].owner \in DOMAIN sessions
           /\ WorkflowInputKey \in DOMAIN sessions[calls[c].owner].memory
           /\ sessions[calls[c].owner].memory[WorkflowInputKey] = calls[c].arg

C30_MemoryAppendOnly == []C30_InputKept /\ [][C30_KeysStep]_vars

\* C31: a key an activity's run writes to context.memory during step k is in
\* the session's stored memory once the step is recorded, and in the memory
\* the next step's condition and activity are given.
Ran(sid) == Len(sessions[sid].history) > 0

C31_ContextMemoryLive ==
    /\ \A sid \in DOMAIN sessions : Ran(sid) => CustomKey \in DOMAIN sessions[sid].memory
    /\ \A c \in 1..Len(calls) :
          (calls[c].pc = "exec_cond" /\ calls[c].sid \in DOMAIN sessions /\ Ran(calls[c].sid))
              => CustomKey \in DOMAIN calls[c].session.memory


\* C32: when a store operation raises during start or continue, the call
\* rejects with that error; the failure is not turned into a workflow
\* failure: no failure response, the session not marked failed, no callback.
StoreFailed(call) == call.thrown = "store"

C32_StoreFailurePropagates ==
    \A c \in 1..Len(calls) :
        StoreFailed(calls[c]) =>
            /\ calls[c].pc = "done" => calls[c].ret = Raise(StoreError)
            /\ sessions[calls[c].sid].status # FAILED
            /\ callbacks[calls[c].sid] = <<>>

\* C33: a call made on a workflow whose name is not the session's
\* workflowName (a cancel on another McpWorkflow over the same manager)
\* leaves that session as it is: status and every other field.
Foreign(call) ==
    /\ call.sid \in DOMAIN sessions
    /\ call.workflow # sessions[call.sid].workflowName

C33_OwnerOnlyMutates ==
    [][\A c \in CallIds :
         (Foreign(calls[c]) /\ Moves(c)) =>
             /\ calls[c].sid \in DOMAIN sessions'
             /\ sessions'[calls[c].sid] = sessions[calls[c].sid]]_vars

\* C40: after every createSession the store holds at most maxSessions + 1
\* sessions; and a continue() whose session the cleanup of a later
\* createSession removed raises "Workflow session <id> not found".
C40_Bounded == Cardinality(DOMAIN sessions) <= manager.maxSessions + 1

C40_ContinueEvicted ==
    \A c \in CallIds :
        (At(c, "cont_loaded") /\ calls[c].sid \notin DOMAIN sessions /\ Moves(c))
            => calls'[c] = Finish(calls[c], Raise(NotFound(calls[c].sid)))

C40_CreateSessionBound == [](C40_Bounded) /\ [][C40_ContinueEvicted]_vars

\* start() answered with the session running, no other call was made on it,
\* two sessions of the other workflow were created, and the continue() that
\* followed found the session gone: it was evicted while running, the store
\* at maxSessions + 1 before and after.
C40_Witness ==
    /\ Len(calls) = 2
    /\ calls[1].op = "start" /\ calls[1].ret.session.status = RUNNING
    /\ calls[2].op = "continue" /\ calls[2].pc = "done"
    /\ calls[2].ret = Raise(NotFound(calls[1].owner))
    /\ calls[1].owner \notin DOMAIN sessions
    /\ Cardinality(DOMAIN sessions) = manager.maxSessions + 1

\* C34: with calls made one at a time, no step lowers a session's
\* currentStep; currentStep is always an index of a step of the workflow;
\* and once a call has recorded the step it executed, currentStep is the
\* stepIndex of the last history entry.
HasRecorded(c) ==
    /\ c = Len(calls)
    /\ calls[c].op \in {"start", "continue"}
    /\ calls[c].executed > 0 /\ calls[c].pc # "activity" /\ calls[c].thrown = ""

LastRecorded(sid) == sessions[sid].history[Len(sessions[sid].history)]

C34_NeverDecreases ==
    \A sid \in DOMAIN sessions :
        sid \in DOMAIN sessions' /\ sessions'[sid].currentStep >= sessions[sid].currentStep

C34_ValidIndex ==
    /\ \A sid \in DOMAIN sessions :
          sessions[sid].currentStep \in 0..(sessions[sid].totalSteps - 1)
    /\ \A c \in 1..Len(calls) :
          HasRecorded(c) =>
              /\ Ran(calls[c].owner)
              /\ sessions[calls[c].owner].currentStep = LastRecorded(calls[c].owner).stepIndex

C34_CurrentStep == [](C34_ValidIndex) /\ [][C34_NeverDecreases]_vars

\* A call has executed and recorded a step after the first.
C34_Witness ==
    \E c \in 1..Len(calls) :
        /\ HasRecorded(c) /\ calls[c].pc = "done"
        /\ sessions[calls[c].owner].currentStep > 0

\* C35: in the list built for a step that is not the last, exactly one
\* suggestion targets the continue tool, whatever the result's own
\* suggestions and the matching branches are.
ContinueTargets(suggestions) ==
    {i \in DOMAIN suggestions : suggestions[i].toolName = ContinueTool}

C35_OneContinue ==
    (suggest.pc = "done" /\ ~suggest.isLastStep)
    => Cardinality(ContinueTargets(suggest.out)) = 1

\* C36: one start() or continue() call invokes at most one activity's
\* execute, however many steps it skips; it answers either for the step of
\* that activity, or, having executed none, with the workflow completed and
\* every step from the one it began with to the last skipped.

C36_AtMostOneActivity ==
    \A c \in 1..Len(calls) :
        calls[c].op \in {"start", "continue"} =>
            /\ calls[c].executed <= 1
            /\ (calls[c].pc = "done" /\ calls[c].ret.kind = "response"
                    /\ calls[c].executed = 0)
               => /\ calls[c].ret.session.status = COMPLETED
                  /\ calls[c].ret.message = "Workflow completed successfully"
                  /\ calls[c].op = "start" => calls[c].skipped = Len(config)
                  /\ calls[c].skipped > 0
                        => calls[c].ret.session.currentStep = Len(config) - 1

\* A call that skipped a step and then executed the next one.
C36_Witness ==
    \E c \in 1..Len(calls) :
        /\ calls[c].pc = "done" /\ calls[c].ret.kind = "response"
        /\ calls[c].skipped > 0 /\ calls[c].executed = 1

\* C37: when every activity, condition and callback returns and calls are
\* made one at a time, every start() or continue() call comes to its end,
\* and a session is in a terminal status once totalSteps start/continue
\* calls have been made for it.
CallsFor(sid) ==
    {c \in 1..Len(calls) : calls[c].op \in {"start", "continue"} /\ calls[c].owner = sid
                              /\ calls[c].pc = "done"}

C37_Within ==
    \A sid \in DOMAIN sessions :
        Cardinality(CallsFor(sid)) >= sessions[sid].totalSteps
            => Terminal(sessions[sid].status)

C37_Ends(c) == (Len(calls) >= c) ~> (Len(calls) >= c /\ calls[c].pc = "done")

C37_Terminates == (\A c \in 1..MaxCalls : C37_Ends(c)) /\ [](C37_Within)

\* A two-step session brought to its end by its second call, and a call
\* that skipped a chain of steps and ended.
C37_Witness ==
    /\ \E sid \in DOMAIN sessions :
          /\ sessions[sid].totalSteps = 2 /\ Cardinality(CallsFor(sid)) = 2
          /\ sessions[sid].status = COMPLETED
          /\ \E c \in CallsFor(sid) : calls[c].skipped > 0

\* C38: nothing keeps two continue() calls off one session.  A continue()
\* that has read currentStep = k goes on to execute step k+1 whatever
\* another call does in between, and when two of them have recorded the
\* step, the history holds two entries with that stepIndex.
Racing(c, d) ==
    /\ c # d /\ calls[c].op = "continue" /\ calls[d].op = "continue"
    /\ calls[c].sid = calls[d].sid /\ calls[c].stepIndex = calls[d].stepIndex

Recorded(c) ==
    /\ calls[c].executed > 0 /\ calls[c].thrown = ""
    /\ calls[c].pc \notin {"activity"}

EntriesOf(sid, stepIndex) ==
    {i \in DOMAIN sessions[sid].history : sessions[sid].history[i].stepIndex = stepIndex}

C38_BothRecorded ==
    \A c, d \in 1..Len(calls) :
        (Racing(c, d) /\ Recorded(c) /\ Recorded(d))
            => Cardinality(EntriesOf(calls[c].sid, calls[c].stepIndex)) >= 2

C38_GoesOn ==
    \A c \in CallIds :
        (calls[c].op = "continue" /\ calls[c].pc \in {"exec_loaded", "exec_cond"} /\ Moves(c))
            => \/ calls[c].pc = "exec_loaded" /\ calls'[c].pc = "exec_cond"
               \/ calls[c].pc = "exec_cond" /\ calls'[c].pc = "activity"
                                             /\ calls'[c].executed = 1

C38_NoMutualExclusion == [](C38_BothRecorded) /\ [][C38_GoesOn]_vars

\* Two continue() calls both read currentStep = 0 and both executed and
\* recorded step 1: the history is longer than the workflow.
C38_Witness ==
    \E c, d \in 1..Len(calls) :
        /\ Racing(c, d) /\ Recorded(c) /\ Recorded(d)
        /\ calls[c].pc = "done" /\ calls[d].pc = "done"
        /\ Len(sessions[calls[c].sid].history) > sessions[calls[c].sid].totalSteps

\* C39: with calls made one at a time, continue() works on the session of
\* the most recent start(): a step of a continue() call changes no stored
\* session but the one created last; and a continue() made before any
\* start() raises 'No active workflow session to continue.' with the store
\* as it was.
Latest == calls[Len(calls)]

C39_OnlyTheLatest ==
    (Len(calls) > 0 /\ Latest.op = "continue" /\ Len(calls') = Len(calls))
        => \A sid \in DOMAIN sessions :
              sid # nextId => sid \in DOMAIN sessions' /\ sessions'[sid] = sessions[sid]

C39_BeforeStart ==
    (nextId = 0 /\ Len(calls') > Len(calls) /\ calls'[Len(calls')].op = "continue")
        => /\ calls'[Len(calls')].pc = "done"
           /\ calls'[Len(calls')].ret = Raise("No active workflow session to continue.")
           /\ sessions' = sessions

====
